---- MODULE Spec2Model ----
(***************************************************************************)
(* Model of the recursive listing engine of backend/clouddrive/drive.go:   *)
(* Fs.ListR, Fs.listRRunner, the grouping state of Fs, the item loop of    *)
(* Fs.list with Fs.resolveShortcut, and the composite ID codec (joinID /   *)
(* splitID).                                                               *)
(*                                                                         *)
(* Strings (IDs) are sequences of small naturals; the natural 0 stands for *)
(* the byte '\t' (shortcutSeparator), which sorts before every byte of a   *)
(* real ID.  Paths are sequences of names.                                 *)
(***************************************************************************)
EXTENDS Integers, Sequences, FiniteSets, Bags, TLC

\* ------------------------------------------------------------------ bounds
\* number of listRRunner goroutines (f.ci.Checkers)
Checkers == 2
\* scaled-down listRGrouping (50 in the source)
listRGrouping == 2
\* scaled-down listRInputBuffer (1000 in the source)
listRInputBuffer == 2
\* longest string the codec is applied to
MaxIdLen == 2

\* most directories in a batch examined on its own
MaxBatch == 3

\* most parents of the item emitted from such a batch
MaxParents == 2
MaxPages == 2
MaxPageLen == 2

\* ------------------------------------------------------------- strings
shortcutSeparator == 0

IdChars == {shortcutSeparator, 1, 2}

RECURSIVE StringsUpTo(_)
StringsUpTo(n) ==
    IF n = 0 THEN {<<>>}
    ELSE LET shorter == StringsUpTo(n - 1)
         IN  shorter \cup {Append(s, c) : s \in shorter, c \in IdChars}

Range(s) == {s[k] : k \in 1..Len(s)}

\* strings.IndexRune: 0-based index of the first occurrence, -1 if none
RECURSIVE IndexFrom(_, _, _)
IndexFrom(str, c, k) ==
    IF k > Len(str) THEN -1
    ELSE IF str[k] = c THEN k - 1
    ELSE IndexFrom(str, c, k + 1)

IndexRune(str, c) == IndexFrom(str, c, 1)

\* strings.ContainsRune
ContainsRune(str, c) == IndexRune(str, c) >= 0

\* Go's s[lo:hi] with 0-based bounds
Slice(str, lo, hi) == SubSeq(str, lo + 1, hi)

\* the < of Go strings: bytewise lexicographic order
RECURSIVE LessFrom(_, _, _)
LessFrom(a, b, k) ==
    IF k > Len(b) THEN FALSE
    ELSE IF k > Len(a) THEN TRUE
    ELSE IF a[k] < b[k] THEN TRUE
    ELSE IF a[k] > b[k] THEN FALSE
    ELSE LessFrom(a, b, k + 1)

StrLess(a, b) == LessFrom(a, b, 1)

\* ------------------------------------------------------ composite ID codec
joinID(actual, shortcut) == actual \o <<shortcutSeparator>> \o shortcut

\* splitID with a seeded fault: the shortcut part starts at the separator
splitIDKeepsSeparator(compositeID) ==
    LET i == IndexRune(compositeID, shortcutSeparator)
    IN  IF i < 0 THEN <<compositeID, <<>>>>
        ELSE <<Slice(compositeID, 0, i), Slice(compositeID, i, Len(compositeID))>>

splitID(compositeID) ==
    LET i == IndexRune(compositeID, shortcutSeparator)
    IN  IF i < 0 THEN <<compositeID, <<>>>>
        ELSE <<Slice(compositeID, 0, i), Slice(compositeID, i + 1, Len(compositeID))>>

isShortcutID(compositeID) == ContainsRune(compositeID, shortcutSeparator)

actualID(compositeID) == splitID(compositeID)[1]

\* shortcutID with a seeded fault: no fall back to the actual ID
shortcutIDNoFallback(compositeID) == splitID(compositeID)[2]

shortcutID(compositeID) ==
    LET p == splitID(compositeID)
    IN  IF p[2] # <<>> THEN p[2] ELSE p[1]

\* ------------------------------------------------------------- the remote
driveFolderType == "folder"
plainFileType == "file"

\* a type of item without MD5 sum and without export format (a map, a form)
unknownType == "map"

shortcutMimeType == "shortcut"
shortcutMimeTypeDangling == "shortcut.dangling"

\* a nil pointer; a pointer that is set is a sequence of one element
nil == <<>>

\* a drive.File: Size stands for the content metadata (size, hashes, times)
Item(id, parent, mime) ==
    [Id |-> <<id>>, Name |-> id, Parents |-> <<<<parent>>>>, MimeType |-> mime,
     Trashed |-> FALSE, Size |-> id, ShortcutDetails |-> nil]

\* a shortcut to the item target, as the listing returns it
Shortcut(id, parent, target, targetMime) ==
    [Item(id, parent, shortcutMimeType) EXCEPT
       !.ShortcutDetails = <<[TargetId |-> <<target>>, TargetMimeType |-> targetMime]>>]

rootID == <<1>>

\* root { 2 {}, 3 {}, 4 {}, 5 { 6 } }: four sub-directories, three of them empty
TreeWide ==
    << Item(2, 1, driveFolderType), Item(3, 1, driveFolderType),
       Item(4, 1, driveFolderType), Item(5, 1, driveFolderType),
       Item(6, 5, plainFileType) >>

\* root { 2 { 3 { 4 } }, 5 }: a chain of directories and a file at the root
TreeDeep ==
    << Item(2, 1, driveFolderType), Item(3, 2, driveFolderType),
       Item(4, 3, plainFileType), Item(5, 1, plainFileType) >>

\* root { 2 { 5 }, 3 {}, 4 {} }: three sub-directories, two of them empty
TreeFan ==
    << Item(2, 1, driveFolderType), Item(3, 1, driveFolderType),
       Item(4, 1, driveFolderType), Item(5, 2, plainFileType) >>

\* root { 2 { 4 }, 3 -> 2, 5 {} }: a folder, a shortcut to it and an empty folder
TreeShortcut ==
    << Item(2, 1, driveFolderType), Shortcut(3, 1, 2, driveFolderType),
       Item(4, 2, plainFileType), Item(5, 1, driveFolderType) >>

\* root { 2 { 4 {}, 5 {} }, 3 { 6 {}, 7 {} } }: four empty directories in two
\* directories
TreeTwins ==
    << Item(2, 1, driveFolderType), Item(3, 1, driveFolderType),
       Item(4, 2, driveFolderType), Item(5, 2, driveFolderType),
       Item(6, 3, driveFolderType), Item(7, 3, driveFolderType) >>

\* root { 2 { 5 }, 3 {}, 4 {} } where 5 is an item that is neither a folder,
\* nor a file with an MD5 sum, nor a document with an export format
TreeUnknown ==
    << Item(2, 1, driveFolderType), Item(3, 1, driveFolderType),
       Item(4, 1, driveFolderType), Item(5, 2, unknownType) >>

Trees == {TreeWide, TreeDeep}

\* the trees crawled when queries and callback may fail, and under fairness
TreesSmall == {TreeFan, TreeDeep}

\* error values: nil, and the error raised in goroutine w by the operation what
NoErr == <<>>
Error(w, what) == <<w, what>>

\* the errors of f.getFile: a googleapi.Error with code 404, and any other
notFound == <<404, "googleapi">>
fetchFailed == <<500, "googleapi">>

\* fmt.Errorf(prefix + ": %w", err)
Wrap(prefix, err) == <<prefix, err>>

\* the options the listing reads; defaultOpt is what the configuration
\* gives when nothing is set
defaultOpt == [SkipShortcuts |-> FALSE, SkipDanglingShortcuts |-> FALSE,
               SharedWithMe |-> FALSE]

Opts == [SkipShortcuts : BOOLEAN, SkipDanglingShortcuts : BOOLEAN,
         SharedWithMe : BOOLEAN]

\* f.getFile: the file with this ID, or the error 404 where there is none
getFile(files, id) ==
    LET hits == SelectSeq(files, LAMBDA it : it.Id = id)
    IN  IF hits = <<>> THEN [file |-> nil, err |-> notFound]
        ELSE [file |-> <<hits[1]>>, err |-> NoErr]

isShortcut(item) == item.MimeType = shortcutMimeType /\ item.ShortcutDetails # nil

\* resolveShortcut with a seeded fault: the target's name is kept
resolveShortcutKeepsTargetName(opt, item, fetched) ==
    IF opt.SkipShortcuts \/ item.MimeType # shortcutMimeType
       \/ item.ShortcutDetails = nil
    THEN [item |-> <<item>>, err |-> NoErr, fetches |-> 0]
    ELSE IF fetched.err = notFound
    THEN [item |-> <<[item EXCEPT !.MimeType = shortcutMimeTypeDangling]>>,
          err |-> NoErr, fetches |-> 1]
    ELSE IF fetched.err # NoErr
    THEN [item |-> nil, err |-> Wrap("failed to resolve shortcut", fetched.err),
          fetches |-> 1]
    ELSE [item |-> <<[fetched.file[1] EXCEPT
                        !.Parents = item.Parents,
                        !.Trashed = item.Trashed,
                        !.Id = joinID(fetched.file[1].Id, item.Id)]>>,
          err |-> NoErr, fetches |-> 1]

\* resolveShortcut with a seeded fault: every failed fetch is an error
resolveShortcutNoDangling(opt, item, fetched) ==
    IF opt.SkipShortcuts \/ item.MimeType # shortcutMimeType
       \/ item.ShortcutDetails = nil
    THEN [item |-> <<item>>, err |-> NoErr, fetches |-> 0]
    ELSE IF fetched.err # NoErr
    THEN [item |-> nil, err |-> Wrap("failed to resolve shortcut", fetched.err),
          fetches |-> 1]
    ELSE [item |-> <<[fetched.file[1] EXCEPT
                        !.Name = item.Name,
                        !.Parents = item.Parents,
                        !.Trashed = item.Trashed,
                        !.Id = joinID(fetched.file[1].Id, item.Id)]>>,
          err |-> NoErr, fetches |-> 1]

\* resolveShortcut with a seeded fault: the new item is still a shortcut
resolveShortcutStillShortcut(opt, item, fetched) ==
    IF opt.SkipShortcuts \/ item.MimeType # shortcutMimeType
       \/ item.ShortcutDetails = nil
    THEN [item |-> <<item>>, err |-> NoErr, fetches |-> 0]
    ELSE IF fetched.err = notFound
    THEN [item |-> <<[item EXCEPT !.MimeType = shortcutMimeTypeDangling]>>,
          err |-> NoErr, fetches |-> 1]
    ELSE IF fetched.err # NoErr
    THEN [item |-> nil, err |-> Wrap("failed to resolve shortcut", fetched.err),
          fetches |-> 1]
    ELSE [item |-> <<[fetched.file[1] EXCEPT
                        !.Name = item.Name,
                        !.Parents = item.Parents,
                        !.Trashed = item.Trashed,
                        !.MimeType = item.MimeType,
                        !.ShortcutDetails = item.ShortcutDetails,
                        !.Id = joinID(fetched.file[1].Id, item.Id)]>>,
          err |-> NoErr, fetches |-> 1]

\* resolveShortcut; fetched is what f.getFile answers for the target, and
\* fetches counts the calls of f.getFile
resolveShortcut(opt, item, fetched) ==
    IF opt.SkipShortcuts \/ item.MimeType # shortcutMimeType
    THEN [item |-> <<item>>, err |-> NoErr, fetches |-> 0]
    ELSE IF item.ShortcutDetails = nil
    THEN [item |-> <<item>>, err |-> NoErr, fetches |-> 0]
    ELSE IF fetched.err # NoErr
    THEN IF fetched.err = notFound
         THEN [item |-> <<[item EXCEPT !.MimeType = shortcutMimeTypeDangling]>>,
               err |-> NoErr, fetches |-> 1]
         ELSE [item |-> nil,
               err |-> Wrap("failed to resolve shortcut", fetched.err),
               fetches |-> 1]
    ELSE LET newItem == fetched.file[1]
         IN  [item |-> <<[newItem EXCEPT
                            !.Name = item.Name,
                            !.Parents = item.Parents,
                            !.Trashed = item.Trashed,
                            !.Id = joinID(newItem.Id, item.Id)]>>,
              err |-> NoErr, fetches |-> 1]

\* the verdicts of the body of the loop over files.Files in Fs.list, with no
\* title to match: the item is skipped ("continue"), handed to fn, or the
\* listing returns the error
Continue == [kind |-> "continue", item |-> nil, err |-> NoErr, fetches |-> 0]

\* listItem with a seeded fault: the shortcut is resolved before the tests
\* of directoriesOnly and filesOnly
listItemResolvesFirst(opt, directoriesOnly, filesOnly, item, fetched) ==
    IF isShortcut(item)
    THEN IF opt.SkipShortcuts THEN Continue
         ELSE LET r == resolveShortcut(opt, item, fetched)
              IN  IF r.err # NoErr
                  THEN [kind |-> "return", item |-> nil,
                        err |-> Wrap("list", r.err), fetches |-> r.fetches]
                  ELSE IF \/ directoriesOnly
                             /\ item.ShortcutDetails[1].TargetMimeType # driveFolderType
                          \/ filesOnly
                             /\ item.ShortcutDetails[1].TargetMimeType = driveFolderType
                          \/ opt.SkipDanglingShortcuts
                             /\ r.item[1].MimeType = shortcutMimeTypeDangling
                  THEN [Continue EXCEPT !.fetches = r.fetches]
                  ELSE [kind |-> "fn", item |-> r.item, err |-> NoErr,
                        fetches |-> r.fetches]
    ELSE [kind |-> "fn", item |-> <<item>>, err |-> NoErr, fetches |-> 0]

listItem(opt, directoriesOnly, filesOnly, item, fetched) ==
    IF isShortcut(item)
    THEN IF opt.SkipShortcuts THEN Continue
         ELSE IF directoriesOnly
                 /\ item.ShortcutDetails[1].TargetMimeType # driveFolderType
         THEN Continue
         ELSE IF filesOnly
                 /\ item.ShortcutDetails[1].TargetMimeType = driveFolderType
         THEN Continue
         ELSE LET r == resolveShortcut(opt, item, fetched)
              IN  IF r.err # NoErr
                  THEN [kind |-> "return", item |-> nil,
                        err |-> Wrap("list", r.err), fetches |-> r.fetches]
                  ELSE IF opt.SkipDanglingShortcuts
                          /\ r.item[1].MimeType = shortcutMimeTypeDangling
                  THEN [Continue EXCEPT !.fetches = r.fetches]
                  ELSE [kind |-> "fn", item |-> r.item, err |-> NoErr,
                        fetches |-> r.fetches]
    ELSE [kind |-> "fn", item |-> <<item>>, err |-> NoErr, fetches |-> 0]

\* what f.getFile answers for the target of item, looked up in files
Fetched(files, item) ==
    IF item.ShortcutDetails = nil THEN [file |-> nil, err |-> notFound]
    ELSE getFile(files, item.ShortcutDetails[1].TargetId)

\* the items Fs.list hands to fn, in order, for the page the provider
\* answered (directoriesOnly and filesOnly off)
RECURSIVE list(_, _, _)
list(opt, files, page) ==
    IF page = <<>> THEN <<>>
    ELSE LET r == listItem(opt, FALSE, FALSE, Head(page), Fetched(files, Head(page)))
         IN  (IF r.kind = "fn" THEN r.item ELSE <<>>) \o list(opt, files, Tail(page))

\* what the provider answers to "(d1 in parents) or (d2 in parents) ...":
\* every item with a parent among dirIDs, once, in the provider's order
FilesWithParentIn(files, dirIDs) ==
    SelectSeq(files, LAMBDA it : \E k \in 1..Len(it.Parents) : it.Parents[k] \in Range(dirIDs))

\* ------------------------------------------------------------ listRSlices
\* Swap with a seeded fault: the paths stay where they are
SwapDirsOnly(s, i, j) ==
    [dirs  |-> [s.dirs  EXCEPT ![i] = s.dirs[j],  ![j] = s.dirs[i]],
     paths |-> s.paths]

Swap(s, i, j) ==
    [dirs  |-> [s.dirs  EXCEPT ![i] = s.dirs[j],  ![j] = s.dirs[i]],
     paths |-> [s.paths EXCEPT ![i] = s.paths[j], ![j] = s.paths[i]]]

Less(s, i, j) == StrLess(s.dirs[i], s.dirs[j])

\* sort.Sort on fewer than 12 elements is an insertion sort
RECURSIVE SiftDown(_, _)
SiftDown(s, j) ==
    IF j > 1 /\ Less(s, j, j - 1) THEN SiftDown(Swap(s, j, j - 1), j - 1) ELSE s

RECURSIVE InsertionSort(_, _)
InsertionSort(s, i) ==
    IF i > Len(s.dirs) THEN s ELSE InsertionSort(SiftDown(s, i), i + 1)

Sort(s) == InsertionSort(s, 2)

\* sort.SearchStrings: binary search, 0-based result in 0..len
RECURSIVE Search(_, _, _, _)
Search(a, x, i, j) ==
    IF i >= j THEN i
    ELSE LET h == (i + j) \div 2
         IN  IF StrLess(a[h + 1], x) THEN Search(a, x, h + 1, j)
             ELSE Search(a, x, i, h)

SearchStrings(a, x) == Search(a, x, 0, Len(a))

\* ------------------------------------------------------------ entries
\* path.Join(dir, name)
Join(dir, name) == Append(dir, name)

\* fs.ErrorObjectNotFound and fs.ErrorIsDir
ErrorObjectNotFound == Error(0, "object not found")
ErrorIsDir == Error(0, "is a directory")

\* the nil fs.DirEntry
nilEntry == [remote |-> <<>>, id |-> <<>>, isDir |-> FALSE]

\* info.Md5Checksum != "": the item is a file stored on drive
hasMd5(info) == info.MimeType = plainFileType

\* newObjectWithExportInfo for an item that is no document with an export
\* format: resolveShortcut is called once more; info is the file the object
\* is made of, fetches the calls of f.getFile
newObjectWithExportInfo(opt, item, fetched) ==
    LET r == resolveShortcut(opt, item, fetched)
    IN  IF r.err # NoErr
        THEN [info |-> nil, err |-> Wrap("new object", r.err), fetches |-> r.fetches]
        ELSE LET info == r.item[1]
             IN  IF info.MimeType = driveFolderType
                 THEN [info |-> nil, err |-> ErrorIsDir, fetches |-> r.fetches]
                 ELSE IF info.MimeType = shortcutMimeType
                 THEN [info |-> nil, err |-> ErrorObjectNotFound, fetches |-> r.fetches]
                 ELSE IF info.MimeType = shortcutMimeTypeDangling \/ hasMd5(info)
                 THEN [info |-> r.item, err |-> NoErr, fetches |-> r.fetches]
                 ELSE [info |-> nil, err |-> ErrorObjectNotFound, fetches |-> r.fetches]

newObjectWithInfo(opt, item, fetched) ==
    IF hasMd5(item) THEN [info |-> <<item>>, err |-> NoErr, fetches |-> 0]
    ELSE newObjectWithExportInfo(opt, item, fetched)

\* itemToDirEntry with the calls of f.getFile it makes: a folder becomes an
\* fs.Dir, anything else an object; fs.ErrorObjectNotFound becomes (nil, nil)
itemToDirEntryFetching(opt, remotePath, item, fetched) ==
    IF item.MimeType = driveFolderType
    THEN [entry |-> [remote |-> remotePath, id |-> item.Id, isDir |-> TRUE],
          err |-> NoErr, fetches |-> 0]
    ELSE LET r == newObjectWithInfo(opt, item, fetched)
         IN  IF r.err = ErrorObjectNotFound
             THEN [entry |-> nilEntry, err |-> NoErr, fetches |-> r.fetches]
             ELSE IF r.err # NoErr
             THEN [entry |-> nilEntry, err |-> r.err, fetches |-> r.fetches]
             ELSE [entry |-> [remote |-> remotePath, id |-> r.info[1].Id, isDir |-> FALSE],
                   err |-> NoErr, fetches |-> r.fetches]

\* the entry itemToDirEntry returns for an item of a listing: the lister has
\* resolved the item already
itemToDirEntry(remotePath, item) ==
    itemToDirEntryFetching(defaultOpt, remotePath, item,
                           [file |-> nil, err |-> fetchFailed]).entry

\* the parents the per-item callback of listRRunner goes through: an item
\* shared with me that has no parents gets the root as its parent
Parents(opt, dirs, paths, item) ==
    IF opt.SharedWithMe /\ Len(item.Parents) = 0 /\ Len(paths) = 1 /\ paths[1] = <<>>
    THEN dirs
    ELSE item.Parents

\* ParentLoop with a seeded fault: a parent outside the batch is not skipped
RECURSIVE ParentLoopNoMatch(_, _, _)
ParentLoopNoMatch(dirs, parents, k) ==
    IF k > Len(parents) THEN <<>>
    ELSE IF Len(dirs) = 1 THEN <<0>>
    ELSE LET i == SearchStrings(dirs, parents[k])
         IN  IF i = Len(dirs)
             THEN ParentLoopNoMatch(dirs, parents, k + 1)
             ELSE <<i>> \o ParentLoopNoMatch(dirs, parents, k + 1)

\* the loop over the parents in the per-item callback of listRRunner: the
\* (0-based) indices into paths under which the item is emitted, in order
RECURSIVE ParentLoop(_, _, _)
ParentLoop(dirs, parents, k) ==
    IF k > Len(parents) THEN <<>>
    ELSE IF Len(dirs) = 1 THEN <<0>>
    ELSE LET i == SearchStrings(dirs, parents[k])
         IN  IF i = Len(dirs) \/ dirs[i + 1] # parents[k]
             THEN ParentLoop(dirs, parents, k + 1)
             ELSE <<i>> \o ParentLoop(dirs, parents, k + 1)

RECURSIVE EntriesOf(_, _, _, _)
EntriesOf(opt, dirs, paths, files) ==
    IF files = <<>> THEN <<>>
    ELSE LET item == Head(files)
             idx  == ParentLoop(dirs, Parents(opt, dirs, paths, item), 1)
         IN  [k \in 1..Len(idx) |-> itemToDirEntry(Join(paths[idx[k] + 1], item.Name), item)]
             \o EntriesOf(opt, dirs, paths, Tail(files))

\* Fs.List applied to every directory in turn, starting from dir
RECURSIVE ListSequentially(_, _, _, _)
ListSequentially(files, dirID, dir, fuel) ==
    LET got == list(defaultOpt, files, FilesWithParentIn(files, <<dirID>>))
        here == {itemToDirEntry(Join(dir, got[k].Name), got[k]) : k \in 1..Len(got)}
                    \ {nilEntry}
    IN  IF fuel = 0 THEN here
        ELSE here \cup UNION {ListSequentially(files, actualID(e.id), e.remote, fuel - 1)
                                 : e \in {x \in here : x.isDir}}

\* ------------------------------------------------------------------ state
VARIABLES
    files,        \* the remote tree, in the order the provider returns items
    flaky,        \* TRUE: a query naming several directories may return nothing
    faulty,       \* TRUE: listing queries and the callback may fail
    grouping,     \* f.grouping
    listRempties, \* f.listRempties
    listRmu,      \* holder of f.listRmu
    inq,          \* buffer of the channel in
    inOpen,       \* in # nil (the channel is not closed)
    overflow,     \* the overflow slice
    wg,           \* counter of the WaitGroup
    mu,           \* holder of the mutex mu of ListR
    out,          \* buffer of the channel out
    listed,       \* bag of the entries given to list.Add
    run,          \* per runner: position and locals of listRRunner
    co,           \* the goroutine that refills and closes in
    mn,           \* the loop of ListR that reads out, and its return
    firstErr,     \* first non-nil value ListR read from out
    codec,        \* inputs and results of the ID codec
    probe,        \* inputs and results of one step of the lister or of the
                  \* per-item callback of listRRunner
    prev          \* what the previous ListR on this Fs delivered

vars == << files, flaky, faulty, grouping, listRempties, listRmu, inq, inOpen,
           overflow, wg, mu, out, listed, run, co, mn, firstErr, codec, probe, prev >>

crawlVars == << files, flaky, faulty, grouping, listRempties, listRmu, inq, inOpen,
                overflow, wg, mu, out, listed, run, co, mn, firstErr, prev >>

Runners == 1..Checkers

\* holders of a mutex
Free == <<"free">>
RunnerId(w) == <<"runner", w>>
CoId == <<"coordinator">>
MnId == <<"ListR">>

\* a listREntry
listREntry(id, path) == [id |-> id, path |-> path]

idle == [pc |-> "recv", dirs |-> <<>>, paths |-> <<>>, grouping |-> 0, i |-> 0,
         todo |-> <<>>, foundItems |-> FALSE, err |-> NoErr]

noCodec == [pc |-> "off", a |-> <<>>, s |-> <<>>, joined |-> <<>>, split |-> <<<<>>, <<>>>>,
            dec |-> [is |-> FALSE, split |-> <<<<>>, <<>>>>, actual |-> <<>>, shortcut |-> <<>>]]

noProbe == [pc |-> "off"]

\* no ListR has run on this Fs before
noPrev == [runs |-> 0, listed |-> EmptyBag, grouping |-> 0, listRempties |-> {}]

\* ListR up to the start of the goroutines; the Fs is as newFs left it
InitCrawl(trees, flakies, faulties) ==
    /\ files \in trees
    /\ flaky \in flakies
    /\ faulty \in faulties
    /\ grouping = listRGrouping
    /\ listRempties = {}
    /\ listRmu = Free
    /\ inq = <<listREntry(actualID(rootID), <<>>)>>
    /\ inOpen = TRUE
    /\ overflow = <<>>
    /\ wg = 1
    /\ mu = Free
    /\ out = <<>>
    /\ listed = EmptyBag
    /\ run = [w \in Runners |-> idle]
    /\ co = [pc |-> "wait", l |-> 0, k |-> 0, closed |-> FALSE]
    /\ mn = [pc |-> "loop", i |-> 0, e |-> NoErr, err |-> NoErr, closed |-> FALSE]
    /\ firstErr = NoErr
    /\ prev = noPrev

\* ------------------------------------------------------------ sendJob
\* sendJob with a seeded fault: a job that does not fit is dropped
sendJobDropping(job) ==
    /\ mu = Free
    /\ IF inOpen /\ Len(inq) < listRInputBuffer
       THEN /\ inq' = Append(inq, job)
            /\ wg' = wg + 1
            /\ UNCHANGED overflow
       ELSE UNCHANGED <<inq, overflow, wg>>

\* sendJob with a seeded fault: a job put in the overflow slice stays counted
sendJobCountsOverflow(job) ==
    /\ mu = Free
    /\ IF ~inOpen
       THEN UNCHANGED <<inq, overflow, wg>>
       ELSE IF Len(inq) < listRInputBuffer
            THEN /\ inq' = Append(inq, job)
                 /\ wg' = wg + 1
                 /\ UNCHANGED overflow
            ELSE /\ overflow' = Append(overflow, job)
                 /\ wg' = wg + 1
                 /\ UNCHANGED inq

\* sendJob with a seeded fault: no test of in == nil, so that a job sent
\* after the close ends up in the overflow slice
sendJobAfterClose(job) ==
    /\ mu = Free
    /\ IF inOpen /\ Len(inq) < listRInputBuffer
       THEN /\ inq' = Append(inq, job)
            /\ wg' = wg + 1
            /\ UNCHANGED overflow
       ELSE /\ overflow' = Append(overflow, job)
            /\ UNCHANGED <<inq, wg>>

\* Send a job to the input channel if not closed; if the job won't fit,
\* queue it in the overflow slice.  The whole body runs under mu.
sendJob(job) ==
    /\ mu = Free
    /\ IF ~inOpen
       THEN UNCHANGED <<inq, overflow, wg>>
       ELSE IF Len(inq) < listRInputBuffer
            THEN /\ inq' = Append(inq, job)
                 /\ wg' = wg + 1
                 /\ UNCHANGED overflow
            ELSE /\ overflow' = Append(overflow, job)
                 /\ UNCHANGED <<inq, wg>>

\* ------------------------------------------------------------ listRRunner
SetRun(w, r) == run' = [run EXCEPT ![w] = r]

\* AfterList with a seeded fault: a batch of several directories is always re-enqueued
AfterListRequeuesFound(r) ==
    IF Len(r.dirs) > 1 THEN "swap"
    ELSE IF r.grouping = 1 /\ Len(r.dirs) = 1 /\ ~r.foundItems THEN "check"
    ELSE "done"

\* where a runner continues once f.list has returned
AfterList(r) ==
    IF Len(r.dirs) > 1 /\ ~r.foundItems THEN "swap"
    ELSE IF r.grouping = 1 /\ Len(r.dirs) = 1 /\ ~r.foundItems THEN "check"
    ELSE "done"

Finished(r) == [r EXCEPT !.todo = <<>>, !.pc = AfterList(r)]

\* for dir := range in: the first job of a batch
Recv(w) ==
    /\ run[w].pc = "recv"
    /\ inq # <<>>
    /\ inq' = Tail(inq)
    /\ SetRun(w, [run[w] EXCEPT !.pc = "load", !.dirs = <<Head(inq).id>>,
                                !.paths = <<Head(inq).path>>])
    /\ UNCHANGED <<files, flaky, faulty, grouping, listRempties, listRmu, inOpen,
                   overflow, wg, mu, out, listed, co, mn, firstErr, codec, probe, prev>>

\* the range loop ends on the closed and drained channel: out <- nil
RunnerExit(w) ==
    /\ run[w].pc = "recv"
    /\ inq = <<>>
    /\ ~inOpen
    /\ out' = Append(out, NoErr)
    /\ SetRun(w, [run[w] EXCEPT !.pc = "exit"])
    /\ UNCHANGED <<files, flaky, faulty, grouping, listRempties, listRmu, inq, inOpen,
                   overflow, wg, mu, listed, co, mn, firstErr, codec, probe, prev>>

\* grouping = atomic.LoadInt32(&f.grouping)
LoadGrouping(w) ==
    /\ run[w].pc = "load"
    /\ SetRun(w, [run[w] EXCEPT !.grouping = grouping, !.i = 1,
                                !.pc = IF 1 < grouping THEN "poll" ELSE "list"])
    /\ UNCHANGED <<files, flaky, faulty, grouping, listRempties, listRmu, inq, inOpen,
                   overflow, wg, mu, out, listed, co, mn, firstErr, codec, probe, prev>>

\* Poll with a seeded fault: the waitloop goes on while jobs are available
PollUnbounded(w) ==
    LET r == run[w]
    IN  /\ r.pc = "poll"
        /\ IF inq # <<>>
           THEN /\ inq' = Tail(inq)
                /\ SetRun(w, [r EXCEPT !.dirs = Append(r.dirs, Head(inq).id),
                                       !.paths = Append(r.paths, Head(inq).path),
                                       !.i = r.i + 1])
           ELSE /\ UNCHANGED inq
                /\ SetRun(w, [r EXCEPT !.pc = "list"])
        /\ UNCHANGED <<files, flaky, faulty, grouping, listRempties, listRmu, inOpen,
                       overflow, wg, mu, out, listed, co, mn, firstErr, codec, probe, prev>>

\* one round of the waitloop: a non-blocking receive
Poll(w) ==
    LET r == run[w]
        next == IF r.i + 1 < r.grouping THEN "poll" ELSE "list"
    IN  /\ r.pc = "poll"
        /\ IF inq # <<>>
           THEN /\ inq' = Tail(inq)
                /\ SetRun(w, [r EXCEPT !.dirs = Append(r.dirs, Head(inq).id),
                                       !.paths = Append(r.paths, Head(inq).path),
                                       !.i = r.i + 1, !.pc = next])
           ELSE /\ UNCHANGED inq
                /\ IF ~inOpen
                   THEN SetRun(w, [r EXCEPT !.pc = "list"])
                   ELSE SetRun(w, [r EXCEPT !.i = r.i + 1, !.pc = next])
        /\ UNCHANGED <<files, flaky, faulty, grouping, listRempties, listRmu, inOpen,
                       overflow, wg, mu, out, listed, co, mn, firstErr, codec, probe, prev>>

\* what f.list can hand to the callback for the sorted batch
Responses(dirs) ==
    {list(defaultOpt, files, FilesWithParentIn(files, dirs))}
    \cup (IF flaky /\ Len(dirs) > 1 THEN {<<>>} ELSE {})

\* listRSlices{dirs, paths}.Sort() and the query of f.list; the entries the
\* callback will emit are computed here and delivered one by one below
Query(w) ==
    LET r == run[w]
        s == Sort([dirs |-> r.dirs, paths |-> r.paths])
    IN  /\ r.pc = "list"
        /\ \E resp \in Responses(s.dirs) :
             LET todo == EntriesOf(defaultOpt, s.dirs, s.paths, resp)
                 q == [r EXCEPT !.dirs = s.dirs, !.paths = s.paths,
                                !.foundItems = FALSE, !.todo = todo, !.pc = "item"]
             IN  SetRun(w, IF todo = <<>> THEN Finished(q) ELSE q)
        /\ UNCHANGED <<files, flaky, faulty, grouping, listRempties, listRmu, inq, inOpen,
                       overflow, wg, mu, out, listed, co, mn, firstErr, codec, probe, prev>>

\* CbSendJob with a seeded fault: the job carries the ID of the entry as it is
CbSendJobKeepsID(w) ==
    LET r == run[w]
        d == Head(r.todo)
    IN  /\ r.pc = "item"
        /\ d.isDir
        /\ sendJob(listREntry(d.id, d.remote))
        /\ SetRun(w, [r EXCEPT !.foundItems = TRUE, !.pc = "lock"])
        /\ UNCHANGED <<files, flaky, faulty, grouping, listRempties, listRmu, inOpen,
                       mu, out, listed, co, mn, firstErr, codec, probe, prev>>

\* CbSendJob with a seeded fault: the job carries the shortcut's half of the
\* entry's ID
CbSendJobShortcutID(w) ==
    LET r == run[w]
        d == Head(r.todo)
    IN  /\ r.pc = "item"
        /\ d.isDir
        /\ sendJob(listREntry(shortcutID(d.id), d.remote))
        /\ SetRun(w, [r EXCEPT !.foundItems = TRUE, !.pc = "lock"])
        /\ UNCHANGED <<files, flaky, faulty, grouping, listRempties, listRmu, inOpen,
                       mu, out, listed, co, mn, firstErr, codec, probe, prev>>

\* cb, first half: a directory entry is queued as a new job
CbSendJob(w) ==
    LET r == run[w]
        d == Head(r.todo)
    IN  /\ r.pc = "item"
        /\ d.isDir
        /\ sendJob(listREntry(actualID(d.id), d.remote))
        /\ SetRun(w, [r EXCEPT !.foundItems = TRUE, !.pc = "lock"])
        /\ UNCHANGED <<files, flaky, faulty, grouping, listRempties, listRmu, inOpen,
                       mu, out, listed, co, mn, firstErr, codec, probe, prev>>

\* CbLock with a seeded fault: the entry is delivered without taking mu
CbLockUnguarded(w) ==
    LET r == run[w]
    IN  /\ \/ r.pc = "lock"
           \/ r.pc = "item" /\ ~Head(r.todo).isDir
        /\ mu' = RunnerId(w)
        /\ SetRun(w, [r EXCEPT !.foundItems = TRUE, !.pc = "add"])
        /\ UNCHANGED <<files, flaky, faulty, grouping, listRempties, listRmu, inq, inOpen,
                       overflow, wg, out, listed, co, mn, firstErr, codec, probe, prev>>

\* cb, second half: mu.Lock()
CbLock(w) ==
    LET r == run[w]
    IN  /\ \/ r.pc = "lock"
           \/ r.pc = "item" /\ ~Head(r.todo).isDir
        /\ mu = Free
        /\ mu' = RunnerId(w)
        /\ SetRun(w, [r EXCEPT !.foundItems = TRUE, !.pc = "add"])
        /\ UNCHANGED <<files, flaky, faulty, grouping, listRempties, listRmu, inq, inOpen,
                       overflow, wg, out, listed, co, mn, firstErr, codec, probe, prev>>

\* CbAdd with a seeded fault: the entry found last is delivered first
CbAddLast(w) ==
    LET r == run[w]
        n == Len(r.todo)
        rest == [r EXCEPT !.todo = SubSeq(r.todo, 1, n - 1), !.pc = "item"]
    IN  /\ r.pc = "add"
        /\ listed' = listed (+) SetToBag({r.todo[n]})
        /\ mu' = Free
        /\ SetRun(w, IF rest.todo = <<>> THEN Finished(rest) ELSE rest)
        /\ UNCHANGED <<files, flaky, faulty, grouping, listRempties, listRmu, inq, inOpen,
                       overflow, wg, out, co, mn, firstErr, codec, probe, prev>>

\* cb, second half: listed++; list.Add(entry) returns nil; mu.Unlock()
CbAdd(w) ==
    LET r == run[w]
        rest == [r EXCEPT !.todo = Tail(r.todo), !.pc = "item"]
    IN  /\ r.pc = "add"
        /\ listed' = listed (+) SetToBag({Head(r.todo)})
        /\ mu' = Free
        /\ SetRun(w, IF rest.todo = <<>> THEN Finished(rest) ELSE rest)
        /\ UNCHANGED <<files, flaky, faulty, grouping, listRempties, listRmu, inq, inOpen,
                       overflow, wg, out, co, mn, firstErr, codec, probe, prev>>

\* SwapGrouping with a seeded fault: f.grouping is left as it is
SwapGroupingKeeps(w) ==
    /\ run[w].pc = "swap"
    /\ SetRun(w, [run[w] EXCEPT !.pc = "rqlock"])
    /\ UNCHANGED <<files, flaky, faulty, grouping, listRempties, listRmu, inq, inOpen,
                   overflow, wg, mu, out, listed, co, mn, firstErr, codec, probe, prev>>

\* atomic.SwapInt32(&f.grouping, 1)
SwapGrouping(w) ==
    /\ run[w].pc = "swap"
    /\ grouping' = 1
    /\ SetRun(w, [run[w] EXCEPT !.pc = "rqlock"])
    /\ UNCHANGED <<files, flaky, faulty, listRempties, listRmu, inq, inOpen,
                   overflow, wg, mu, out, listed, co, mn, firstErr, codec, probe, prev>>

\* f.listRmu.Lock() before the requeue loop
RequeueLock(w) ==
    /\ run[w].pc = "rqlock"
    /\ listRmu = Free
    /\ listRmu' = RunnerId(w)
    /\ SetRun(w, [run[w] EXCEPT !.i = 0, !.pc = "requeue"])
    /\ UNCHANGED <<files, flaky, faulty, grouping, listRempties, inq, inOpen,
                   overflow, wg, mu, out, listed, co, mn, firstErr, codec, probe, prev>>

\* Requeue with a seeded fault: the directory is noted as suspect but not sent again
RequeueForgets(w) ==
    LET r == run[w]
        last == r.i + 1 = Len(r.dirs)
    IN  /\ r.pc = "requeue"
        /\ mu = Free
        /\ listRempties' = listRempties \cup {r.dirs[r.i + 1]}
        /\ listRmu' = IF last THEN Free ELSE listRmu
        /\ SetRun(w, [r EXCEPT !.i = r.i + 1, !.pc = IF last THEN "done" ELSE "requeue"])
        /\ UNCHANGED <<files, flaky, faulty, grouping, inq, inOpen, overflow, wg,
                       mu, out, listed, co, mn, firstErr, codec, probe, prev>>

\* one round of the requeue loop; the last round unlocks f.listRmu
Requeue(w) ==
    LET r == run[w]
        last == r.i + 1 = Len(r.dirs)
    IN  /\ r.pc = "requeue"
        /\ sendJob(listREntry(r.dirs[r.i + 1], r.paths[r.i + 1]))
        /\ listRempties' = listRempties \cup {r.dirs[r.i + 1]}
        /\ listRmu' = IF last THEN Free ELSE listRmu
        /\ SetRun(w, [r EXCEPT !.i = r.i + 1, !.pc = IF last THEN "done" ELSE "requeue"])
        /\ UNCHANGED <<files, flaky, faulty, grouping, inOpen,
                       mu, out, listed, co, mn, firstErr, codec, probe, prev>>

\* the check of an empty singleton batch against f.listRempties, under f.listRmu
CheckEmpties(w) ==
    LET r == run[w]
        left == listRempties \ {r.dirs[1]}
    IN  /\ r.pc = "check"
        /\ listRmu = Free
        /\ IF r.dirs[1] \in listRempties
           THEN /\ listRempties' = left
                /\ grouping' = IF left = {} THEN listRGrouping ELSE grouping
           ELSE UNCHANGED <<listRempties, grouping>>
        /\ SetRun(w, [r EXCEPT !.pc = "done"])
        /\ UNCHANGED <<files, flaky, faulty, listRmu, inq, inOpen,
                       overflow, wg, mu, out, listed, co, mn, firstErr, codec, probe, prev>>

\* Done with a seeded fault: wg.Done() is called once for the whole batch
DoneOnce(w) ==
    LET r == run[w]
    IN  /\ r.pc = "done"
        /\ wg' = wg - 1
        /\ SetRun(w, IF r.err # NoErr THEN [r EXCEPT !.pc = "fail"] ELSE idle)
        /\ UNCHANGED <<files, flaky, faulty, grouping, listRempties, listRmu, inq, inOpen,
                       overflow, mu, out, listed, co, mn, firstErr, codec, probe, prev>>

\* for range dirs { wg.Done() }, then either the next batch or the error exit
Done(w) ==
    LET r == run[w]
    IN  /\ r.pc = "done"
        /\ wg' = wg - Len(r.dirs)
        /\ SetRun(w, IF r.err # NoErr THEN [r EXCEPT !.pc = "fail"] ELSE idle)
        /\ UNCHANGED <<files, flaky, faulty, grouping, listRempties, listRmu, inq, inOpen,
                       overflow, mu, out, listed, co, mn, firstErr, codec, probe, prev>>

\* SendErr with a seeded fault: the runner goes on with the next batch
SendErrGoesOn(w) ==
    /\ run[w].pc = "fail"
    /\ out' = Append(out, run[w].err)
    /\ SetRun(w, idle)
    /\ UNCHANGED <<files, flaky, faulty, grouping, listRempties, listRmu, inq, inOpen,
                   overflow, wg, mu, listed, co, mn, firstErr, codec, probe, prev>>

\* out <- iErr or out <- err; return
SendErr(w) ==
    /\ run[w].pc = "fail"
    /\ out' = Append(out, run[w].err)
    /\ SetRun(w, [idle EXCEPT !.pc = "exit", !.err = run[w].err])
    /\ UNCHANGED <<files, flaky, faulty, grouping, listRempties, listRmu, inq, inOpen,
                   overflow, wg, mu, listed, co, mn, firstErr, codec, probe, prev>>

\* f.list fails (remote error or cancellation), before the first item or
\* between two items
ListFail(w) ==
    LET r == run[w]
        s == Sort([dirs |-> r.dirs, paths |-> r.paths])
        q == IF r.pc = "list"
             THEN [r EXCEPT !.dirs = s.dirs, !.paths = s.paths, !.foundItems = FALSE]
             ELSE r
    IN  /\ faulty
        /\ r.pc \in {"list", "item"}
        /\ SetRun(w, Finished([q EXCEPT !.err = Error(w, "list")]))
        /\ UNCHANGED <<files, flaky, faulty, grouping, listRempties, listRmu, inq, inOpen,
                       overflow, wg, mu, out, listed, co, mn, firstErr, codec, probe, prev>>

\* cb, second half, when list.Add(entry) returns the callback's error
CbFail(w) ==
    LET r == run[w]
    IN  /\ faulty
        /\ r.pc = "add"
        /\ listed' = listed (+) SetToBag({Head(r.todo)})
        /\ mu' = Free
        /\ SetRun(w, Finished([r EXCEPT !.err = Error(w, "callback")]))
        /\ UNCHANGED <<files, flaky, faulty, grouping, listRempties, listRmu, inq, inOpen,
                       overflow, wg, out, co, mn, firstErr, codec, probe, prev>>

listRRunner(w) ==
    \/ Recv(w) \/ RunnerExit(w) \/ LoadGrouping(w) \/ Poll(w) \/ Query(w)
    \/ CbSendJob(w) \/ CbLock(w) \/ CbAdd(w)
    \/ SwapGrouping(w) \/ RequeueLock(w) \/ Requeue(w) \/ CheckEmpties(w)
    \/ Done(w)

listRRunnerFails(w) == ListFail(w) \/ CbFail(w) \/ SendErr(w)

\* ------------------------------------------- ListR: the refilling goroutine
Min(a, b) == IF a < b THEN a ELSE b

\* CoWait with a seeded fault: the overflow slice is not looked at
CoWaitSkipsRefill ==
    /\ co.pc = "wait"
    /\ wg = 0
    /\ co' = [co EXCEPT !.pc = "close"]
    /\ UNCHANGED <<files, flaky, faulty, grouping, listRempties, listRmu, inq, inOpen,
                   overflow, wg, mu, out, listed, run, mn, firstErr, codec, probe, prev>>

\* wg.Wait() returns; then the test of len(overflow)
CoWait ==
    /\ co.pc = "wait"
    /\ wg = 0
    /\ co' = [co EXCEPT !.pc = IF Len(overflow) > 0 THEN "refill" ELSE "close"]
    /\ UNCHANGED <<files, flaky, faulty, grouping, listRempties, listRmu, inq, inOpen,
                   overflow, wg, mu, out, listed, run, mn, firstErr, codec, probe, prev>>

\* mu.Lock(); l = min(len(overflow), listRInputBuffer/2); wg.Add(l)
CoRefill ==
    LET l == Min(Len(overflow), listRInputBuffer \div 2)
    IN  /\ co.pc = "refill"
        /\ mu = Free
        /\ wg' = wg + l
        /\ IF l = 0
           THEN mu' = mu /\ co' = [co EXCEPT !.pc = "wait"]
           ELSE mu' = CoId /\ co' = [co EXCEPT !.pc = "send", !.l = l, !.k = 0]
        /\ UNCHANGED <<files, flaky, faulty, grouping, listRempties, listRmu, inq, inOpen,
                       overflow, out, listed, run, mn, firstErr, codec, probe, prev>>

\* in <- d for the next d of overflow[:l]: blocks while the channel is full,
\* and for ever when in is nil; after the last send overflow = overflow[l:]
\* and mu.Unlock()
CoSend ==
    LET last == co.k + 1 = co.l
    IN  /\ co.pc = "send"
        /\ inOpen
        /\ Len(inq) < listRInputBuffer
        /\ inq' = Append(inq, overflow[co.k + 1])
        /\ overflow' = IF last THEN SubSeq(overflow, co.l + 1, Len(overflow)) ELSE overflow
        /\ mu' = IF last THEN Free ELSE mu
        /\ co' = IF last THEN [co EXCEPT !.pc = "wait", !.l = 0, !.k = 0]
                 ELSE [co EXCEPT !.k = co.k + 1]
        /\ UNCHANGED <<files, flaky, faulty, grouping, listRempties, listRmu, inOpen,
                       wg, out, listed, run, mn, firstErr, codec, probe, prev>>

\* CoClose with a seeded fault: close(in) without the test of in != nil
CoCloseUnguarded ==
    /\ co.pc = "close"
    /\ mu = Free
    /\ inOpen' = FALSE
    /\ co' = [co EXCEPT !.pc = "exit", !.closed = TRUE]
    /\ UNCHANGED <<files, flaky, faulty, grouping, listRempties, listRmu, inq,
                   overflow, wg, mu, out, listed, run, mn, firstErr, codec, probe, prev>>

\* mu.Lock(); if in != nil { close(in); in = nil }; mu.Unlock(); closed
\* records whether this goroutine did the close
CoClose ==
    /\ co.pc = "close"
    /\ mu = Free
    /\ inOpen' = FALSE
    /\ co' = [co EXCEPT !.pc = "exit", !.closed = inOpen]
    /\ UNCHANGED <<files, flaky, faulty, grouping, listRempties, listRmu, inq,
                   overflow, wg, mu, out, listed, run, mn, firstErr, codec, probe, prev>>

Coordinator == CoWait \/ CoRefill \/ CoSend \/ CoClose

\* ------------------------------------------------ ListR: the result loop
\* e := <-out
MnRecv ==
    /\ mn.pc = "loop"
    /\ out # <<>>
    /\ out' = Tail(out)
    /\ mn' = [mn EXCEPT !.pc = "handle", !.e = Head(out)]
    /\ firstErr' = IF firstErr = NoErr THEN Head(out) ELSE firstErr
    /\ UNCHANGED <<files, flaky, faulty, grouping, listRempties, listRmu, inq, inOpen,
                   overflow, wg, mu, listed, run, co, codec, probe, prev>>

\* KeepFirst with a seeded fault: every non-nil value read from out is kept
KeepLast(e) == IF e # NoErr THEN e ELSE mn.err

\* the value ListR keeps in err for a value e read from out
KeepFirst(e) == IF e # NoErr /\ inOpen THEN e ELSE mn.err

\* mu.Lock(); if e != nil && in != nil { err = e; close(in); in = nil };
\* mu.Unlock(); after the last round close(out) and return err if it is set
MnHandle ==
    LET err == KeepFirst(mn.e)
        last == mn.i + 1 = Checkers
    IN  /\ mn.pc = "handle"
        /\ mu = Free
        /\ inOpen' = IF mn.e # NoErr /\ inOpen THEN FALSE ELSE inOpen
        /\ mn' = [mn EXCEPT !.i = mn.i + 1, !.e = NoErr, !.err = err,
                            !.closed = mn.closed \/ (mn.e # NoErr /\ inOpen),
                            !.pc = IF ~last THEN "loop"
                                   ELSE IF err # NoErr THEN "return" ELSE "flush"]
        /\ UNCHANGED <<files, flaky, faulty, grouping, listRempties, listRmu, inq,
                       overflow, wg, mu, out, listed, run, co, firstErr, codec, probe, prev>>

\* err = list.Flush() returns nil
MnFlush ==
    /\ mn.pc = "flush"
    /\ mn' = [mn EXCEPT !.pc = "return"]
    /\ UNCHANGED <<files, flaky, faulty, grouping, listRempties, listRmu, inq, inOpen,
                   overflow, wg, mu, out, listed, run, co, firstErr, codec, probe, prev>>

\* err = list.Flush() returns the callback's error
MnFlushFail ==
    /\ faulty
    /\ mn.pc = "flush"
    /\ mn' = [mn EXCEPT !.pc = "return", !.err = Error(0, "flush")]
    /\ UNCHANGED <<files, flaky, faulty, grouping, listRempties, listRmu, inq, inOpen,
                   overflow, wg, mu, out, listed, run, co, firstErr, codec, probe, prev>>

ListR == MnRecv \/ MnHandle \/ MnFlush

\* ------------------------------------------------------- specifications
Next == (\E w \in Runners : listRRunner(w)) \/ Coordinator \/ ListR

Fails == (\E w \in Runners : listRRunnerFails(w)) \/ MnFlushFail

NextFaulty == Next \/ Fails

\* a remote that answers every query correctly and never fails
Init == InitCrawl(Trees, {FALSE}, {FALSE}) /\ codec = noCodec /\ probe = noProbe

Spec == Init /\ [][Next]_vars

\* a remote that may answer nothing to a query naming several directories
InitFlaky == InitCrawl(Trees, {TRUE}, {FALSE}) /\ codec = noCodec /\ probe = noProbe

SpecFlaky == InitFlaky /\ [][Next]_vars

\* queries and callback may fail
InitFaulty == InitCrawl(TreesSmall, {FALSE}, {TRUE}) /\ codec = noCodec /\ probe = noProbe

SpecFaulty == InitFaulty /\ [][NextFaulty]_vars

\* a tree in which a shortcut names a folder that is listed as well
InitShortcut == InitCrawl({TreeShortcut}, {TRUE}, {FALSE}) /\ codec = noCodec /\ probe = noProbe

SpecShortcut == InitShortcut /\ [][Next]_vars

\* the same tree on a remote that answers correctly, with queries and
\* callback that may fail
InitShortcutFaulty ==
    InitCrawl({TreeShortcut}, {FALSE}, {TRUE}) /\ codec = noCodec /\ probe = noProbe

SpecShortcutFaulty == InitShortcutFaulty /\ [][NextFaulty]_vars

\* a tree with an item that has no entry, on a remote that may answer
\* nothing to a query naming several directories
InitUnknown == InitCrawl({TreeUnknown}, {TRUE}, {FALSE}) /\ codec = noCodec /\ probe = noProbe

SpecUnknown == InitUnknown /\ [][Next]_vars

\* a tree with several empty directories, on a remote that answers every
\* query correctly
InitEmpties == InitCrawl({TreeTwins}, {FALSE}, {FALSE}) /\ codec = noCodec /\ probe = noProbe

SpecEmpties == InitEmpties /\ [][Next]_vars

\* every goroutine that can take a step eventually takes one
Fairness ==
    /\ \A w \in Runners : WF_vars(listRRunner(w))
    /\ WF_vars(Coordinator)
    /\ WF_vars(ListR)

InitSmall == InitCrawl(TreesSmall, {FALSE}, {FALSE}) /\ codec = noCodec /\ probe = noProbe

FairSpec == InitSmall /\ [][Next]_vars /\ Fairness

InitSmallFlaky == InitCrawl(TreesSmall, {TRUE}, {FALSE}) /\ codec = noCodec /\ probe = noProbe

FairSpecFlaky == InitSmallFlaky /\ [][Next]_vars /\ Fairness

\* ------------------------------------------- ListR called a second time
\* every goroutine of the crawl has ended and ListR has returned
Terminated ==
    /\ mn.pc = "return"
    /\ co.pc = "exit"
    /\ \A w \in Runners : run[w].pc = "exit"

\* ListR is called again on the same Fs once the first call is over: its
\* locals are made anew, f.grouping and f.listRempties are as they were left
Restart ==
    /\ Terminated
    /\ prev.runs = 0
    /\ prev' = [runs |-> 1, listed |-> listed, grouping |-> grouping,
                listRempties |-> listRempties]
    /\ inq' = <<listREntry(actualID(rootID), <<>>)>>
    /\ inOpen' = TRUE
    /\ overflow' = <<>>
    /\ wg' = 1
    /\ mu' = Free
    /\ out' = <<>>
    /\ listed' = EmptyBag
    /\ run' = [w \in Runners |-> idle]
    /\ co' = [pc |-> "wait", l |-> 0, k |-> 0, closed |-> FALSE]
    /\ mn' = [pc |-> "loop", i |-> 0, e |-> NoErr, err |-> NoErr, closed |-> FALSE]
    /\ firstErr' = NoErr
    /\ UNCHANGED <<files, flaky, faulty, grouping, listRempties, listRmu, codec, probe>>

NextTwice == Next \/ Restart

SpecTwice == InitSmallFlaky /\ [][NextTwice]_vars

\* ----------------------------------------------- the codec on its own
CodecJoin ==
    /\ codec.pc = "start"
    /\ codec' = [codec EXCEPT !.pc = "joined", !.joined = joinID(codec.a, codec.s)]
    /\ UNCHANGED <<crawlVars, probe>>

CodecSplit ==
    /\ codec.pc = "joined"
    /\ codec' = [codec EXCEPT !.pc = "split", !.split = splitID(codec.joined)]
    /\ UNCHANGED <<crawlVars, probe>>

\* the decoders applied to the string a, which may hold separators
CodecDecode ==
    /\ codec.pc = "split"
    /\ codec' = [codec EXCEPT !.pc = "decoded",
                              !.dec = [is |-> isShortcutID(codec.a),
                                       split |-> splitID(codec.a),
                                       actual |-> actualID(codec.a),
                                       shortcut |-> shortcutID(codec.a)]]
    /\ UNCHANGED <<crawlVars, probe>>

NextCodec == CodecJoin \/ CodecSplit \/ CodecDecode

InitCodec ==
    /\ InitCrawl({TreeDeep}, {FALSE}, {FALSE})
    /\ probe = noProbe
    /\ \E a \in StringsUpTo(MaxIdLen), sh \in StringsUpTo(MaxIdLen) :
         codec = [noCodec EXCEPT !.pc = "start", !.a = a, !.s = sh]

SpecCodec == InitCodec /\ [][NextCodec]_vars

\* ------------------------------------- one item of a listing on its own
\* the file a shortcut points to, as f.getFile returns it
ProbeTarget(mime) == Item(7, 9, mime)

\* the items a page can hold: shortcuts to a folder and to a file, an item
\* of the shortcut type without shortcutDetails, a file and a folder
ProbeItems ==
    LET plain == {Shortcut(3, 1, 7, driveFolderType), Shortcut(3, 1, 7, plainFileType),
                  Item(3, 1, shortcutMimeType), Item(3, 1, plainFileType),
                  Item(3, 1, driveFolderType)}
    IN  {[it EXCEPT !.Trashed = t] : it \in plain, t \in BOOLEAN}

\* what f.getFile can answer for the target of item
FetchOutcomes(item) ==
    {[file |-> nil, err |-> notFound], [file |-> nil, err |-> fetchFailed]}
    \cup (IF item.ShortcutDetails = nil THEN {}
          ELSE {[file |-> <<ProbeTarget(item.ShortcutDetails[1].TargetMimeType)>>,
                 err |-> NoErr]})

\* itemToDirEntry has not been called
noConversion == [entry |-> nilEntry, err |-> NoErr, fetches |-> 0]

InitResolve ==
    /\ InitCrawl({TreeDeep}, {FALSE}, {FALSE})
    /\ codec = noCodec
    /\ \E opt \in Opts, dirsOnly \in BOOLEAN, filesOnly \in BOOLEAN, item \in ProbeItems :
         \E fetched \in FetchOutcomes(item) :
           probe = [pc |-> "start", opt |-> opt, directoriesOnly |-> dirsOnly,
                    filesOnly |-> filesOnly, item |-> item, fetched |-> fetched,
                    resolved |-> Continue, listed |-> Continue,
                    converted |-> noConversion]

\* f.resolveShortcut(ctx, item)
ProbeResolve ==
    /\ probe.pc = "start"
    /\ probe' = [probe EXCEPT !.pc = "resolved",
                              !.resolved = resolveShortcut(probe.opt, probe.item, probe.fetched)]
    /\ UNCHANGED <<crawlVars, codec>>

\* one round of the loop over files.Files in Fs.list
ProbeList ==
    /\ probe.pc = "resolved"
    /\ probe' = [probe EXCEPT !.pc = "listed",
                              !.listed = listItem(probe.opt, probe.directoriesOnly,
                                                  probe.filesOnly, probe.item, probe.fetched)]
    /\ UNCHANGED <<crawlVars, codec>>

\* the per-item function of Fs.List and of listRRunner: itemToDirEntry for
\* the item that Fs.list hands over
ProbeConvert ==
    /\ probe.pc = "listed"
    /\ probe' = [probe EXCEPT
                   !.pc = "converted",
                   !.converted =
                      IF probe.listed.kind # "fn" THEN noConversion
                      ELSE itemToDirEntryFetching(probe.opt,
                                                  <<probe.listed.item[1].Name>>,
                                                  probe.listed.item[1], probe.fetched)]
    /\ UNCHANGED <<crawlVars, codec>>

NextResolve == ProbeResolve \/ ProbeList \/ ProbeConvert

SpecResolve == InitResolve /\ [][NextResolve]_vars

\* ----------------------------- the per-item callback of listRRunner alone
ProbeIds == {<<1>>, <<2>>, <<3>>}

RECURSIVE SeqsUpTo(_, _)
SeqsUpTo(S, n) ==
    IF n = 0 THEN {<<>>}
    ELSE LET shorter == SeqsUpTo(S, n - 1)
         IN  shorter \cup {Append(q, x) : q \in shorter, x \in S}

\* the batches a runner can draw: the root on its own, or up to MaxBatch
\* directories, the one drawn k-th with the path <<k>>; an ID comes twice
\* when a folder and a shortcut to it are drawn together
ProbeBatches ==
    {[dirs |-> <<rootID>>, paths |-> <<<<>>>>]}
    \cup {[dirs |-> d, paths |-> [k \in 1..Len(d) |-> <<k>>]]
             : d \in SeqsUpTo(ProbeIds, MaxBatch) \ {<<>>}}

\* parent lists: none, one or several IDs, each ID once
ProbeParents ==
    {q \in SeqsUpTo(ProbeIds, MaxParents) : Cardinality(Range(q)) = Len(q)}

InitEmit ==
    /\ InitCrawl({TreeDeep}, {FALSE}, {FALSE})
    /\ codec = noCodec
    /\ \E b \in ProbeBatches, q \in ProbeParents, shared \in BOOLEAN :
         probe = [pc |-> "batch", batch |-> b, sorted |-> b,
                  opt |-> [defaultOpt EXCEPT !.SharedWithMe = shared],
                  item |-> [Item(4, 1, plainFileType) EXCEPT !.Parents = q],
                  entries |-> <<>>]

\* listRSlices{dirs, paths}.Sort()
ProbeSort ==
    /\ probe.pc = "batch"
    /\ probe' = [probe EXCEPT !.pc = "sorted", !.sorted = Sort(probe.batch)]
    /\ UNCHANGED <<crawlVars, codec>>

\* the callback given to f.list, called with the item
ProbeEmit ==
    /\ probe.pc = "sorted"
    /\ probe' = [probe EXCEPT !.pc = "emitted",
                              !.entries = EntriesOf(probe.opt, probe.sorted.dirs,
                                                    probe.sorted.paths, <<probe.item>>)]
    /\ UNCHANGED <<crawlVars, codec>>

NextEmit == ProbeSort \/ ProbeEmit

SpecEmit == InitEmit /\ [][NextEmit]_vars

\* ------------------------------------------- Fs.list, page after page
\* the files the provider holds besides the listed ones: none, the target
\* of the shortcut is missing
PageWorld == <<>>

\* the items of the pages: a file and a dangling shortcut
PageItems == {Item(3, 1, plainFileType), Shortcut(6, 1, 8, plainFileType)}

\* the answers of the provider: at least one page, each with a next-page
\* token except the last
PageLists == SeqsUpTo(SeqsUpTo(PageItems, MaxPageLen), MaxPages) \ {<<>>}

\* Fs.list is called: p pages fetched, k items of the current page done;
\* passed and rets are the items handed to fn and what fn returned
InitPages ==
    /\ InitCrawl({TreeDeep}, {FALSE}, {FALSE})
    /\ codec = noCodec
    /\ \E opt \in Opts, pages \in PageLists :
         /\ ~opt.SharedWithMe
         /\ probe = [pc |-> "fetch", opt |-> opt, pages |-> pages, p |-> 0, k |-> 0,
                     passed |-> <<>>, rets |-> <<>>, fetches |-> 0,
                     found |-> FALSE, err |-> NoErr]

\* PageEnd with a seeded fault: the next-page token is not looked at
PageEndIgnoresToken ==
    /\ probe.pc = "items"
    /\ probe.k = Len(probe.pages[probe.p])
    /\ probe' = [probe EXCEPT !.pc = "done"]
    /\ UNCHANGED <<crawlVars, codec>>

\* PageItem with a seeded fault: found is set as soon as fn has been called
PageItemFoundAny ==
    LET item == probe.pages[probe.p][probe.k + 1]
        r == listItem(probe.opt, FALSE, FALSE, item, Fetched(PageWorld, item))
    IN  /\ probe.pc = "items"
        /\ probe.k < Len(probe.pages[probe.p])
        /\ IF r.kind = "continue"
           THEN probe' = [probe EXCEPT !.k = probe.k + 1,
                                       !.fetches = probe.fetches + r.fetches]
           ELSE \E ret \in BOOLEAN :
                  probe' = [probe EXCEPT !.k = probe.k + 1,
                                         !.fetches = probe.fetches + r.fetches,
                                         !.passed = Append(probe.passed, r.item[1]),
                                         !.rets = Append(probe.rets, ret),
                                         !.found = TRUE,
                                         !.pc = IF ret THEN "done" ELSE "items"]
        /\ UNCHANGED <<crawlVars, codec>>

\* list...Do() through the pacer: the next page, or an error
PageFetch ==
    /\ probe.pc = "fetch"
    /\ \/ probe' = [probe EXCEPT !.pc = "items", !.p = probe.p + 1, !.k = 0]
       \/ probe' = [probe EXCEPT !.pc = "done",
                                 !.err = Wrap("couldn't list directory", fetchFailed)]
    /\ UNCHANGED <<crawlVars, codec>>

\* one round of the loop over files.Files: the item is skipped, or the
\* listing returns the error of resolveShortcut, or fn is called and the
\* listing goes on or ends with found = true
PageItem ==
    LET item == probe.pages[probe.p][probe.k + 1]
    IN  /\ probe.pc = "items"
        /\ probe.k < Len(probe.pages[probe.p])
        /\ \E fetched \in {Fetched(PageWorld, item), [file |-> nil, err |-> fetchFailed]} :
             LET r == listItem(probe.opt, FALSE, FALSE, item, fetched)
                 next == [probe EXCEPT !.k = probe.k + 1,
                                       !.fetches = probe.fetches + r.fetches]
             IN  IF r.kind = "continue" THEN probe' = next
                 ELSE IF r.kind = "return"
                 THEN probe' = [probe EXCEPT !.pc = "done", !.err = r.err,
                                             !.fetches = probe.fetches + r.fetches]
                 ELSE \E ret \in BOOLEAN :
                        probe' = [next EXCEPT !.passed = Append(probe.passed, r.item[1]),
                                              !.rets = Append(probe.rets, ret),
                                              !.found = ret,
                                              !.pc = IF ret THEN "done" ELSE "items"]
        /\ UNCHANGED <<crawlVars, codec>>

\* the page is done: break if files.NextPageToken == "", else the next page
PageEnd ==
    /\ probe.pc = "items"
    /\ probe.k = Len(probe.pages[probe.p])
    /\ probe' = [probe EXCEPT !.pc = IF probe.p = Len(probe.pages) THEN "done" ELSE "fetch"]
    /\ UNCHANGED <<crawlVars, codec>>

NextPages == PageFetch \/ PageItem \/ PageEnd

SpecPages == InitPages /\ [][NextPages]_vars

\* ------------------------------------------------------------- properties
\* ListR has returned to its caller
Returned == mn.pc = "return"

\* the entries of a traversal that lists one directory at a time
Sequential == ListSequentially(files, actualID(rootID), <<>>, Len(files))

Delivered == BagToSet(listed)

\* the errors raised in the runners so far
Raised == {run[w].err : w \in Runners} \ {NoErr}

\* C1: if a listing query or the entry callback returned an error during the
\* crawl, ListR returns a non-nil error.
C1_ErrorMakesListRFail == (Returned /\ Raised # {}) => mn.err # NoErr

C3_Terminates == <>(Terminated /\ wg = 0 /\ overflow = <<>> /\ inq = <<>> /\ ~inOpen)

C3_Witness == Terminated /\ files = TreeFan /\ wg = 0 /\ overflow = <<>>

\* C4: once a runner has reported an error the crawl cannot get stuck before
\* every runner has exited and ListR has returned, and nobody is left
\* holding the mutex of ListR.
C4_ErrorShutdownCompletes ==
    ((\E w \in Runners : run[w].pc = "exit" /\ run[w].err # NoErr) /\ ~ENABLED NextFaulty)
        => (Returned /\ mu = Free /\ \A w \in Runners : run[w].pc = "exit")

\* C5: once the job channel has been closed because of a reported error, no
\* runner takes a job out of the queue any more.
C5_NoJobDrawnAfterErrorClose ==
    [][(~inOpen /\ mn.err # NoErr) => inq' = inq]_vars

\* C6: with a remote that may answer nothing to queries naming several
\* directories, every fair execution ends without error and with every
\* entry of the tree delivered.
C6_FlakyRemoteStillComplete ==
    <>[](Terminated /\ mn.err = NoErr /\ Delivered = Sequential)

C6_Witness ==
    /\ Terminated
    /\ listRempties # {}
    /\ grouping = 1
    /\ Delivered = Sequential
    /\ Cardinality(Delivered) = Len(files)

\* C7: at most one call of list.Add or list.Flush is in progress at any
\* time; a runner is inside list.Add only while it holds mu, and list.Flush
\* runs only after every runner has exited.
C7_OneSinkCallAtATime ==
    /\ Cardinality({w \in Runners : run[w].pc = "add"})
         + (IF mn.pc = "flush" THEN 1 ELSE 0) <= 1
    /\ \A w \in Runners : run[w].pc = "add" => mu = RunnerId(w)
    /\ mn.pc = "flush" => \A w \in Runners : run[w].pc = "exit"

C7_Witness ==
    \E w, v \in Runners : w # v /\ run[w].pc = "add" /\ run[v].pc = "lock"

\* C8: a non-nil error returned from the crawl is the first non-nil value
\* ListR read from the result channel.
C8_FirstErrorWins ==
    (Returned /\ mn.err # NoErr /\ mn.err # Error(0, "flush")) => mn.err = firstErr

C8_Witness ==
    /\ Returned
    /\ mn.err # NoErr
    /\ mn.err = firstErr
    /\ \E w \in Runners : run[w].err # NoErr /\ run[w].err # mn.err

\* C9: in an error-free crawl no entry is delivered more than once, and a
\* batch that is being re-enqueued has emitted no entry.
C9_NoEntryTwice ==
    /\ \A e \in Delivered : CopiesIn(e, listed) = 1
    /\ \A w \in Runners : run[w].pc \in {"swap", "rqlock", "requeue"} => ~run[w].foundItems

C9_Witness ==
    /\ Returned
    /\ listRempties # {}
    /\ Cardinality(Delivered) = Len(files)

\* C10: splitID(joinID(a, s)) = (a, s) for all a and s without separator.
NoSeparator(str) == \A k \in 1..Len(str) : str[k] # shortcutSeparator

C10_RoundTrip ==
    (codec.pc \in {"split", "decoded"} /\ NoSeparator(codec.a) /\ NoSeparator(codec.s))
        => codec.split = <<codec.a, codec.s>>

C10_Witness ==
    /\ codec.pc = "split"
    /\ NoSeparator(codec.a) /\ codec.a # <<>>
    /\ codec.s = <<>>
    /\ codec.split = <<codec.a, <<>>>>

\* C11: joining an ID a that holds no separator with an empty shortcut ID
\* gives a itself, and the result is not a shortcut ID.
C11_JoinEmptyIsPlain ==
    (codec.pc # "start" /\ NoSeparator(codec.a) /\ codec.s = <<>>)
        => (codec.joined = codec.a /\ ~isShortcutID(codec.joined))

\* the strings before and after the first separator of x
Before(x) == CHOOSE b \in StringsUpTo(Len(x)) :
                 /\ NoSeparator(b)
                 /\ \E r \in StringsUpTo(Len(x)) : x = b \o <<shortcutSeparator>> \o r

After(x) == CHOOSE r \in StringsUpTo(Len(x)) : x = Before(x) \o <<shortcutSeparator>> \o r

\* C12: decoding is total. x is a shortcut ID iff it holds the separator; x
\* without separator decodes to (x, ""); actualID(x) is the part before the
\* first separator; shortcutID(x) is the part after it when that is not
\* empty, and actualID(x) otherwise.
C12_DecodingTotal ==
    codec.pc = "decoded" =>
        LET x == codec.a
            d == codec.dec
        IN  /\ d.is <=> ~NoSeparator(x)
            /\ NoSeparator(x) => (d.split = <<x, <<>>>> /\ d.actual = x)
            /\ ~NoSeparator(x) => d.actual = Before(x)
            /\ d.shortcut = IF ~NoSeparator(x) /\ After(x) # <<>> THEN After(x)
                            ELSE d.actual

\* a string with an empty part after its separator has been decoded
C12_Witness ==
    /\ codec.pc = "decoded"
    /\ codec.a = <<1, shortcutSeparator>>
    /\ codec.dec.is
    /\ codec.dec.actual = <<1>>
    /\ codec.dec.shortcut = <<1>>

\* the probe holds a shortcut that Fs.list resolves
ResolvesShortcut ==
    /\ probe.pc \in {"resolved", "listed"}
    /\ ~probe.opt.SkipShortcuts
    /\ isShortcut(probe.item)

\* C13: resolving a shortcut whose target fetch succeeds gives an item with
\* the target's metadata and kind, the shortcut's own name, parents and
\* trashed flag, and the ID joinID(target ID, shortcut ID).
C13_ResolvedShortcut ==
    (ResolvesShortcut /\ probe.fetched.err = NoErr) =>
        LET t == probe.fetched.file[1]
            sc == probe.item
        IN  /\ probe.resolved.err = NoErr
            /\ probe.resolved.item =
                 << [Id |-> joinID(t.Id, sc.Id), Name |-> sc.Name,
                     Parents |-> sc.Parents, Trashed |-> sc.Trashed,
                     MimeType |-> t.MimeType, Size |-> t.Size,
                     ShortcutDetails |-> t.ShortcutDetails] >>

\* a trashed shortcut to a folder has been resolved
C13_Witness ==
    /\ probe.pc = "resolved"
    /\ probe.item = [Shortcut(3, 1, 7, driveFolderType) EXCEPT !.Trashed = TRUE]
    /\ probe.fetched.err = NoErr
    /\ probe.resolved.item[1].Id = <<7, shortcutSeparator, 3>>
    /\ probe.resolved.item[1].MimeType = driveFolderType
    /\ probe.resolved.item[1].Trashed

\* the shortcut of the probe is not left out by directoriesOnly or filesOnly
NotFilteredOut ==
    LET isDir == probe.item.ShortcutDetails[1].TargetMimeType = driveFolderType
    IN  /\ probe.directoriesOnly => isDir
        /\ probe.filesOnly => ~isDir

\* C14: a target fetch that fails with 404 marks the item dangling, leaves
\* it the shortcut's own ID, and the listing goes on without error, handing
\* the item on unless SkipDanglingShortcuts is set; any other fetch error
\* makes the listing return an error and no item for the shortcut.
C14_DanglingOrFail ==
    (probe.pc = "listed" /\ ResolvesShortcut /\ NotFilteredOut) =>
        LET dangling == [probe.item EXCEPT !.MimeType = shortcutMimeTypeDangling]
        IN  /\ probe.fetched.err = notFound =>
                  /\ probe.resolved = [item |-> <<dangling>>, err |-> NoErr, fetches |-> 1]
                  /\ ~isShortcutID(dangling.Id)
                  /\ probe.listed.err = NoErr
                  /\ IF probe.opt.SkipDanglingShortcuts
                     THEN probe.listed.kind = "continue" /\ probe.listed.item = nil
                     ELSE probe.listed.kind = "fn" /\ probe.listed.item = <<dangling>>
            /\ probe.fetched.err \notin {NoErr, notFound} =>
                  /\ probe.listed.kind = "return"
                  /\ probe.listed.err # NoErr
                  /\ probe.listed.item = nil

\* a dangling shortcut has been handed on
C14_Witness ==
    /\ probe.pc = "listed"
    /\ ResolvesShortcut
    /\ probe.fetched.err = notFound
    /\ ~probe.opt.SkipDanglingShortcuts
    /\ probe.listed.kind = "fn"
    /\ probe.listed.item[1].MimeType = shortcutMimeTypeDangling

EntryUnder(path) == itemToDirEntry(Join(path, probe.item.Name), probe.item)

\* C16: in a batch of exactly one directory every item the lister returns is
\* emitted exactly once under that directory's path, whatever its parents
\* (none, one that is not the directory, or several).
C16_SingletonEmitsOnce ==
    (probe.pc = "emitted" /\ Len(probe.batch.dirs) = 1)
        => probe.entries = <<EntryUnder(probe.batch.paths[1])>>

\* the parents of the probe's item that are directories of the batch
ParentsInBatch ==
    SelectSeq(probe.item.Parents, LAMBDA q : q \in Range(probe.batch.dirs))

\* C17: in a batch of two or more directories an item is emitted once for
\* each of its parents that is in the batch, under the path drawn with that
\* directory ID, and not for parents outside the batch; with no parent in
\* the batch it is emitted nowhere.
C17_EmittedPerParentInBatch ==
    (probe.pc = "emitted" /\ Len(probe.batch.dirs) > 1) =>
        /\ Len(probe.entries) = Len(ParentsInBatch)
        /\ \A k \in 1..Len(ParentsInBatch) :
              \E i \in 1..Len(probe.batch.dirs) :
                 /\ probe.batch.dirs[i] = ParentsInBatch[k]
                 /\ probe.entries[k] = EntryUnder(probe.batch.paths[i])

\* an item with one parent in the batch and one outside, the batch drawn
\* out of order
C17_Witness ==
    /\ probe.pc = "emitted"
    /\ probe.batch.dirs = <<<<3>>, <<2>>>>
    /\ probe.sorted.dirs = <<<<2>>, <<3>>>>
    /\ probe.item.Parents = <<<<1>>, <<3>>>>
    /\ probe.entries = <<EntryUnder(<<1>>)>>

\* runner w has emitted all entries of a batch in which the directories at
\* i and j are the same directory drawn under two paths
SharedInBatch(w, i, j) ==
    /\ run[w].pc = "done"
    /\ run[w].err = NoErr
    /\ i \in 1..Len(run[w].dirs) /\ j \in 1..Len(run[w].dirs)
    /\ i # j
    /\ run[w].dirs[i] = run[w].dirs[j]
    /\ run[w].paths[i] # run[w].paths[j]

\* C18: when two jobs with the same directory ID and different paths are
\* drained into one batch, every child of the directory is emitted under
\* both paths, as when the two jobs are listed in batches of their own.
C18_SharedDirectoryUnderBothPaths ==
    \A w \in Runners : \A i, j \in 1..listRGrouping :
        (SharedInBatch(w, i, j) /\ run[w].foundItems) =>
            \A k \in {i, j} :
                ListSequentially(files, run[w].dirs[k], run[w].paths[k], 0) \subseteq Delivered

\* the jobs of the tree: the root, and every directory with its path
JobsOfTree ==
    {listREntry(actualID(rootID), <<>>)}
    \cup {listREntry(actualID(e.id), e.remote) : e \in {x \in Sequential : x.isDir}}

\* runner w leaves f.list in this step
LeavesList(w) ==
    /\ run[w].pc \in {"list", "item", "lock", "add"}
    /\ run'[w].pc \in {"swap", "check", "done"}

\* in this step runner w decides rightly whether its batch is sent again:
\* it is iff it has several directories and no item was found
DecidesRequeue(w) ==
    LeavesList(w) =>
        (run'[w].pc = "swap" <=> (Len(run'[w].dirs) > 1 /\ ~run'[w].foundItems))

\* in this step runner w, about to send its batch again, sets f.grouping to 1
DropsGrouping(w) ==
    (run[w].pc = "swap" /\ run'[w].pc # "swap") => grouping' = 1

\* the job runner w sends in the next round of its requeue loop
RequeuedJob(w) == listREntry(run[w].dirs[run[w].i + 1], run[w].paths[run[w].i + 1])

\* the job has been put at the end of the queue or of the overflow buffer
Queued(job) ==
    \/ inq' = Append(inq, job) /\ overflow' = overflow
    \/ overflow' = Append(overflow, job) /\ inq' = inq

\* in this step runner w ends the requeue loop having gone through every
\* directory of the batch, and every one of them is a suspect
CompletesRequeue(w) ==
    (run[w].pc # "done" /\ run'[w].pc = "done"
        /\ Len(run[w].dirs) > 1 /\ ~run[w].foundItems) =>
            /\ run[w].pc = "requeue"
            /\ run'[w].i = Len(run[w].dirs)
            /\ Range(run[w].dirs) \subseteq listRempties'

EndsEmptySingleton(w) ==
    /\ run[w].pc \in {"list", "item", "check"}
    /\ run'[w].pc = "done"
    /\ Len(run'[w].dirs) = 1
    /\ ~run'[w].foundItems

\* the step takes the directory d out of f.listRempties and, where that
\* leaves the set empty, sets f.grouping to its default, all at once and
\* while no runner holds f.listRmu
ClearsSuspect(d) ==
    /\ listRmu = Free
    /\ listRmu' = Free
    /\ listRempties' = listRempties \ {d}
    /\ grouping' = IF listRempties' = {} THEN listRGrouping ELSE grouping

\* C20: when a batch of one directory yields no item and the directory ID is
\* in f.listRempties, the ID is taken out of the set, and if that leaves the
\* set empty f.grouping is set back to its default; test, removal and test
\* for emptiness are one unit under f.listRmu.
C20_SuspectCleared ==
    [][\A w \in Runners :
         (EndsEmptySingleton(w) /\ run'[w].dirs[1] \in listRempties)
            => ClearsSuspect(run'[w].dirs[1])]_vars

\* C22: in every state in which no runner is inside the requeue loop
\* (holding f.listRmu), a non-empty f.listRempties implies f.grouping = 1.
C22_SuspectsImplyGroupingOne ==
    (listRmu = Free /\ listRempties # {}) => grouping = 1

\* the directory with this ID has no items
IsEmpty(d) == FilesWithParentIn(files, <<d>>) = <<>>

\* C21: whenever a batch of several directories returns no items f.grouping
\* becomes 1, and if every directory recorded in f.listRempties is in fact
\* empty, the set has become empty and f.grouping is back at its default
\* when the crawl ends, in every interleaving of the runners.
C21_GroupingRestoredAtEnd ==
    (Terminated /\ \A d \in listRempties : IsEmpty(d))
        => (listRempties = {} /\ grouping = listRGrouping)

\* the jobs runner w has drawn and not yet marked done
InBatch(w) == IF run[w].pc \in {"recv", "fail", "exit"} THEN 0 ELSE Len(run[w].dirs)

RECURSIVE InBatches(_)
InBatches(n) == IF n = 0 THEN 0 ELSE InBatch(n) + InBatches(n - 1)

\* C23: the counter wg is never negative, and whenever neither sendJob nor
\* the refill of the coordinator is in progress (mu is not held by the
\* coordinator) it equals the number of jobs in the queue plus the number of
\* jobs in batches drawn and not yet marked done; jobs in the overflow slice
\* are not counted.
C23_CounterMatchesJobs ==
    /\ wg >= 0
    /\ mu # CoId => wg = Len(inq) + InBatches(Checkers)

C23_Witness ==
    /\ mu # CoId
    /\ overflow # <<>>
    /\ inq # <<>>
    /\ \E w \in Runners : InBatch(w) > 1
    /\ wg = Len(inq) + InBatches(Checkers)

\* the coordinator closes the job channel in this step
CoordinatorCloses == co.pc = "close" /\ inOpen /\ ~inOpen'

\* C24: on the error-free path the coordinator closes the job channel only
\* in a state where wg is zero, the queue is empty, no runner is processing
\* a batch and the overflow slice is empty, so that every directory found
\* has been listed by then.
C24_ClosesOnlyWhenAllListed ==
    [][CoordinatorCloses =>
         /\ wg = 0
         /\ inq = <<>>
         /\ overflow = <<>>
         /\ \A w \in Runners : run[w].pc = "recv"
         /\ Delivered = Sequential]_vars

C24_Witness ==
    /\ co.pc = "exit"
    /\ ~inOpen
    /\ mn.err = NoErr
    /\ files = TreeWide
    /\ grouping = 1
    /\ Delivered = Sequential

\* runner w is about to call sendJob: from cb with a directory entry, or in
\* the requeue loop
CallsSendJob(w) ==
    \/ run[w].pc = "item" /\ Head(run[w].todo).isDir
    \/ run[w].pc = "requeue"

\* the job of that call
SubmittedJob(w) ==
    IF run[w].pc = "requeue" THEN RequeuedJob(w)
    ELSE listREntry(actualID(Head(run[w].todo).id), Head(run[w].todo).remote)

\* in this step the call of sendJob by runner w returns
Submits(w) ==
    /\ CallsSendJob(w)
    /\ \/ run[w].pc = "item" /\ run'[w].pc = "lock"
       \/ run[w].pc = "requeue" /\ run'[w].i = run[w].i + 1

\* the job went into the queue and was counted, or, the queue being full,
\* to the end of the overflow slice without being counted
PutOnce(job) ==
    IF Len(inq) < listRInputBuffer
    THEN inq' = Append(inq, job) /\ wg' = wg + 1 /\ overflow' = overflow
    ELSE overflow' = Append(overflow, job) /\ wg' = wg /\ inq' = inq

SeqToBag(s) == [x \in Range(s) |-> Cardinality({i \in DOMAIN s : s[i] = x})]

\* the jobs waiting to be drawn: those of the queue and those of the
\* overflow slice that the coordinator has not sent yet
PendingJobs ==
    LET sent == IF co.pc = "send" THEN co.k ELSE 0
    IN  SeqToBag(inq) (+) SeqToBag(SubSeq(overflow, sent + 1, Len(overflow)))

\* the jobs submitted in this step while the channel is open
SubmittedNow ==
    LET ws == {w \in Runners : Submits(w) /\ inOpen}
    IN  SeqToBag([i \in 1..Cardinality(ws) |-> SubmittedJob(CHOOSE w \in ws : TRUE)])

\* the jobs drawn by a runner in this step
DrawnNow ==
    LET ws == {w \in Runners : Len(run'[w].dirs) = Len(run[w].dirs) + 1}
        job(w) == listREntry(run'[w].dirs[Len(run'[w].dirs)], run'[w].paths[Len(run'[w].dirs)])
    IN  SeqToBag([i \in 1..Cardinality(ws) |-> job(CHOOSE w \in ws : TRUE)])

\* C25: submitting a job never blocks on a full queue: while the channel is
\* open each submitted job ends up exactly once either in the queue, with wg
\* incremented by one, or at the end of the overflow slice, with wg
\* unchanged; no submitted job is lost or duplicated on its way to a runner.
C25_SubmittedExactlyOnce ==
    [][/\ \A w \in Runners :
            /\ (CallsSendJob(w) /\ mu = Free) => ENABLED (CbSendJob(w) \/ Requeue(w))
            /\ (Submits(w) /\ inOpen) => PutOnce(SubmittedJob(w))
       /\ PendingJobs' (+) DrawnNow = PendingJobs (+) SubmittedNow]_vars

C25_Witness ==
    /\ inOpen
    /\ Len(inq) = listRInputBuffer
    /\ overflow # <<>>
    /\ \E w \in Runners :
          /\ run[w].pc = "lock"
          /\ Head(run[w].todo).isDir
          /\ overflow[Len(overflow)] =
                 listREntry(actualID(Head(run[w].todo).id), Head(run[w].todo).remote)

\* C26: the coordinator moves jobs from the overflow slice into the queue
\* only after wg has reached zero, at most listRInputBuffer/2 per round, in
\* the order in which they were buffered, adding the moved jobs to wg before
\* sending them; in every execution the send that is due can complete.
C26_RefillNeverBlocks ==
    co.pc = "send" =>
        /\ co.l <= listRInputBuffer \div 2
        /\ co.l <= Len(overflow)
        /\ wg <= co.l
        /\ wg = Len(inq) + InBatches(Checkers) + (co.l - co.k)
        /\ \E j \in 0..co.k : inq = SubSeq(overflow, j + 1, co.k)
        /\ ENABLED CoSend

\* runner w has read the group size for the batch it is collecting or processing
HasBatch(w) == run[w].pc \notin {"recv", "load", "fail", "exit"}

\* C27: a runner blocks only for the first job of a batch; the further
\* receives of the waitloop never block, and a batch never has more
\* directories than the group size read at its start, so with group size 1
\* every batch is a singleton.
C27_BatchWithinGroupSize ==
    \A w \in Runners :
        /\ (run[w].pc = "recv" /\ inq = <<>> /\ inOpen) => ~ENABLED listRRunner(w)
        /\ run[w].pc = "poll" => ENABLED Poll(w)
        /\ HasBatch(w) =>
              /\ run[w].grouping >= 1
              /\ Len(run[w].dirs) >= 1
              /\ Len(run[w].dirs) <= run[w].grouping

C27_Witness ==
    /\ \E w \in Runners :
          run[w].pc = "list" /\ run[w].grouping = 1 /\ Len(run[w].dirs) = 1 /\ inq # <<>>
    /\ \E w \in Runners :
          run[w].pc = "list" /\ run[w].grouping = listRGrouping
              /\ Len(run[w].dirs) = listRGrouping

\* runner w is inside cb with the entry at the head of its list
InCallback(w) == run[w].pc \in {"item", "lock", "add"} /\ run[w].todo # <<>>

\* C28: every folder entry handed to cb while the job channel is open makes
\* exactly one new job, (actual ID of the folder, path of the folder), be
\* submitted, before the entry itself is delivered; an entry that is not a
\* folder never creates a job.
C28_FolderEntryMakesOneJob ==
    [][\A w \in Runners :
         (InCallback(w) /\ run'[w] # run[w]) =>
            LET d == Head(run[w].todo)
                job == listREntry(actualID(d.id), d.remote)
                delivers == listed' = listed (+) SetToBag({d})
            IN  /\ (d.isDir /\ run[w].pc = "item" /\ run'[w].pc \in {"lock", "add"}) =>
                      /\ run'[w].pc = "lock"
                      /\ inOpen => PutOnce(job)
                      /\ run'[w].todo = run[w].todo
                      /\ listed' = listed
                /\ (~d.isDir \/ run[w].pc # "item") => UNCHANGED <<inq, overflow, wg>>
                /\ run[w].pc = "lock" => (d.isDir /\ listed' = listed)
                /\ listed' # listed =>
                      /\ run[w].pc = "add"
                      /\ delivers]_vars

C28_Witness ==
    \E w \in Runners :
        /\ run[w].pc = "lock"
        /\ isShortcutID(Head(run[w].todo).id)
        /\ inOpen
        /\ inq # <<>>
        /\ inq[Len(inq)] = listREntry(actualID(Head(run[w].todo).id), Head(run[w].todo).remote)
        /\ \E v \in Runners : run[v].pc = "item" /\ ~Head(run[v].todo).isDir

\* the runners that have sent their value on out
Exited == {w \in Runners : run[w].pc = "exit"}

\* the values ListR has taken from out so far
Received == mn.i + (IF mn.pc = "handle" THEN 1 ELSE 0)

\* every value sent is on out or has been received, out never holds more
\* than its capacity, and ListR has returned only with a value of every runner
OneValuePerRunner ==
    /\ Len(out) + Received = Cardinality(Exited)
    /\ Len(out) <= Checkers
    /\ Returned => (Received = Checkers /\ Exited = Runners /\ out = <<>>)
    /\ ~ENABLED NextFaulty => Exited = Runners

\* in this step runner w sends its one value: nil on the closed and drained
\* channel, else the error of its failing batch
SendsItsValue(w) ==
    /\ run[w].pc \in {"recv", "fail"}
    /\ run'[w].pc = "exit"
    /\ IF run[w].pc = "recv"
       THEN ~inOpen /\ inq = <<>> /\ out' = Append(out, NoErr)
       ELSE run[w].err # NoErr /\ out' = Append(out, run[w].err)

\* C29: each runner sends exactly one value on out, nil after it has seen
\* the job channel closed and drained or else the error of its failing
\* batch, and processes no batch afterwards; these sends never block, and
\* ListR returns only after it has received one value from every runner.
C29_OneValuePerRunner ==
    /\ []OneValuePerRunner
    /\ [][\A w \in Runners :
            /\ run[w].pc = "exit" => run'[w] = run[w]
            /\ (run[w].pc # "exit" /\ run'[w].pc = "exit") => SendsItsValue(w)
            /\ (run[w].err # NoErr /\ run[w].pc \notin {"fail", "exit"}) =>
                  (run'[w].err = run[w].err /\ run'[w].pc # "recv")
            /\ Len(out') > Len(out) => \E v \in Runners : SendsItsValue(v)]_vars

C29_Witness ==
    /\ Returned
    /\ \E w \in Runners : run[w].pc = "exit" /\ run[w].err # NoErr
    /\ \E w \in Runners : run[w].pc = "exit" /\ run[w].err = NoErr

\* C30: after the job channel has been closed, by the coordinator or because
\* of an error, a call of sendJob changes nothing: the queue, the overflow
\* slice and wg are left as they were.
C30_SubmitAfterCloseIsNoOp ==
    [][\A w \in Runners :
         (Submits(w) /\ ~inOpen) => UNCHANGED <<inq, overflow, wg>>]_vars

\* the runner listing the root of TreeFan has called sendJob for its last
\* folder entry after the other runner failed on its only batch: the job is
\* neither queued nor buffered, and nobody has drawn it
C30_Witness ==
    /\ files = TreeFan
    /\ ~inOpen
    /\ mn.err # NoErr
    /\ inq = <<>>
    /\ overflow = <<>>
    /\ wg = 1
    /\ \A e \in BagToSet(listed) : e.id # <<5>>
    /\ \E w \in Runners :
          /\ run[w].pc = "lock"
          /\ run[w].dirs = <<actualID(rootID)>>
          /\ Head(run[w].todo).id = <<4>>
          /\ \A v \in Runners \ {w} : run[v].pc = "exit" /\ run[v].err # NoErr

\* the result loop closes the job channel in this step
ResultLoopCloses == mn.pc = "handle" /\ mn' # mn /\ inOpen /\ ~inOpen'

\* C31: the job channel is closed at most once, by the coordinator or by
\* the result loop but never by both, and no job is sent on the channel
\* after it has been closed.
C31_ClosedOnce ==
    /\ [](~(co.closed /\ mn.closed) /\ ((co.closed \/ mn.closed) => ~inOpen))
    /\ [][/\ (inOpen /\ ~inOpen') => ((CoordinatorCloses /\ co' # co) # ResultLoopCloses)
          /\ ~inOpen =>
                /\ ~inOpen'
                /\ co'.closed = co.closed
                /\ mn'.closed = mn.closed
                /\ inq' = inq \/ inq' = Tail(inq)]_vars

C31_Witness ==
    /\ mn.closed
    /\ co.pc = "exit"
    /\ ~co.closed

\* the entries runner w has found in its batch and not yet handed to cb, in
\* the order in which it found them, lose only their first element, and
\* that element is the one delivered
DeliversInOrder(w) ==
    /\ (run[w].todo # <<>> /\ run'[w].todo # run[w].todo) =>
          \/ run'[w].todo = Tail(run[w].todo)
               /\ listed' = listed (+) SetToBag({Head(run[w].todo)})
          \/ run'[w].todo = <<>>
    /\ (run[w].pc = "add" /\ run'[w] # run[w]) =>
          listed' = listed (+) SetToBag({Head(run[w].todo)})
    /\ (run[w].pc = "list" /\ run'[w].todo # <<>>) =>
          \E resp \in Responses(run'[w].dirs) :
              run'[w].todo = EntriesOf(defaultOpt, run'[w].dirs, run'[w].paths, resp)

\* C32: for any two entries a runner produces from one batch, the entry
\* found first is handed to cb first; between entries of different
\* batches or runners no order is kept.
C32_BatchOrderKept ==
    [][/\ \A w \in Runners : DeliversInOrder(w)
       /\ listed' # listed =>
             \E w \in Runners : run[w].pc = "add" /\ run'[w] # run[w]]_vars

\* both runners are in the middle of their batches: each has delivered its
\* first entry and not yet its second
C32_Witness ==
    /\ files = TreeTwins
    /\ \E w, v \in Runners :
          /\ run[w].dirs = <<<<2>>>> /\ run[v].dirs = <<<<3>>>>
          /\ run[w].pc = "item" /\ run[v].pc = "item"
          /\ Len(run[w].todo) = 1 /\ Len(run[v].todo) = 1
          /\ run[w].todo[1].id = <<5>> /\ run[v].todo[1].id = <<7>>
          /\ {e.id : e \in BagToSet(listed)} = {<<2>>, <<3>>, <<4>>, <<6>>}

\* the item handed to the per-item function, once Fs.list has handed one over
Handed == probe.listed.item[1]

\* C33: for every listed shortcut, exactly one target fetch is made between
\* the listing of the item and the delivery of its entry: the resolved item
\* is not resolved again, neither by the lister nor by itemToDirEntry.
C33_OneFetchPerShortcut ==
    (probe.pc = "converted" /\ isShortcut(probe.item) /\ probe.listed.kind = "fn") =>
        /\ probe.listed.fetches = 1
        /\ probe.converted.fetches = 0
        /\ probe.converted.err = NoErr
        /\ resolveShortcut(probe.opt, Handed, probe.fetched)
              = [item |-> <<Handed>>, err |-> NoErr, fetches |-> 0]

C33_Witness ==
    /\ probe.pc = "converted"
    /\ isShortcut(probe.item)
    /\ probe.listed.kind = "fn"
    /\ probe.fetched.err = NoErr
    /\ Handed.MimeType = plainFileType
    /\ isShortcutID(probe.converted.entry.id)
    /\ probe.listed.fetches + probe.converted.fetches = 1

RECURSIVE Flatten(_)
Flatten(pages) == IF pages = <<>> THEN <<>> ELSE Head(pages) \o Flatten(Tail(pages))

\* the items of the answer that Fs.list has gone through
Seen == Flatten(SubSeq(probe.pages, 1, probe.p - 1))
            \o SubSeq(probe.pages[probe.p], 1, probe.k)

\* fn has returned true for the item passed last and for no item before it
StoppedByFn ==
    /\ probe.rets # <<>>
    /\ probe.rets[Len(probe.rets)]
    /\ \A i \in 1..(Len(probe.rets) - 1) : ~probe.rets[i]

\* C34: the lister fetches the pages in order until the provider returns an
\* empty next-page token and passes every item that survives the filters to
\* fn exactly once; it stops as soon as fn returns true, with no further
\* page and no further item, and returns found = true exactly then; an
\* error on a page ends the listing with found = false and that error.
C34_PagesInOrderUntilStop ==
    /\ Len(probe.rets) = Len(probe.passed)
    /\ probe.p >= 1 => probe.passed = list(probe.opt, PageWorld, Seen)
    /\ (probe.pc = "done" /\ probe.err = NoErr) =>
          /\ probe.found <=> StoppedByFn
          /\ ~probe.found =>
                /\ probe.p = Len(probe.pages)
                /\ Seen = Flatten(probe.pages)
                /\ \A i \in 1..Len(probe.rets) : ~probe.rets[i]
    /\ (probe.pc = "done" /\ probe.err # NoErr) =>
          /\ ~probe.found
          /\ \A i \in 1..Len(probe.rets) : ~probe.rets[i]
    /\ probe.pc # "done" => (probe.err = NoErr /\ ~probe.found
                                /\ \A i \in 1..Len(probe.rets) : ~probe.rets[i])
    /\ probe.pc = "done" => ~ENABLED NextPages

C34_Witness ==
    /\ probe.pc = "done"
    /\ probe.found
    /\ Len(probe.pages) = MaxPages
    /\ probe.p = 1
    /\ Len(probe.passed) = 1
    /\ Len(Seen) = MaxPageLen

\* C35 as stated: found is true whenever at least one item was passed to
\* fn, and false when the listing produced no item.
C35_FoundIffItemPassed ==
    (probe.pc = "done" /\ probe.err = NoErr) => (probe.found <=> probe.passed # <<>>)

\* C35 as the code has it: found is true exactly when fn returned true for
\* the item passed last, which ended the listing; it is false when the
\* listing produced no item and also when fn returned false for every item.
C35_FoundIffFnReturnedTrue ==
    probe.pc = "done" =>
        /\ probe.found <=> (probe.rets # <<>> /\ probe.rets[Len(probe.rets)])
        /\ probe.passed = <<>> => ~probe.found
        /\ (\A i \in 1..Len(probe.rets) : ~probe.rets[i]) => ~probe.found

C35_Witness ==
    /\ probe.pc = "done"
    /\ probe.err = NoErr
    /\ Len(probe.passed) > 1
    /\ ~probe.found

\* the shortcut of the probe is filtered out by the mode of the listing
SkippedByMode ==
    \/ probe.directoriesOnly
         /\ probe.item.ShortcutDetails[1].TargetMimeType # driveFolderType
    \/ probe.filesOnly
         /\ probe.item.ShortcutDetails[1].TargetMimeType = driveFolderType

\* C36: with SkipShortcuts a shortcut is never resolved (no target fetch)
\* and never passed to fn; with directoriesOnly a shortcut to a non-folder
\* and with filesOnly a shortcut to a folder is skipped, in both cases
\* before any target fetch.
C36_ShortcutsSkippedUnfetched ==
    (probe.pc \in {"listed", "converted"} /\ isShortcut(probe.item)
        /\ (probe.opt.SkipShortcuts \/ SkippedByMode)) =>
            /\ probe.listed.kind = "continue"
            /\ probe.listed.fetches = 0
            /\ probe.opt.SkipShortcuts => probe.resolved.fetches = 0

C36_Witness ==
    /\ probe.pc = "listed"
    /\ isShortcut(probe.item)
    /\ ~probe.opt.SkipShortcuts
    /\ probe.directoriesOnly
    /\ ~probe.filesOnly
    /\ probe.item.ShortcutDetails[1].TargetMimeType = plainFileType
    /\ probe.fetched.err = NoErr
    /\ probe.listed = Continue

\* the IDs of the directories of the remote: the root, the folders, and the
\* targets of the shortcuts to folders
FolderIDs ==
    {rootID}
    \cup {files[k].Id : k \in {j \in DOMAIN files : files[j].MimeType = driveFolderType}}
    \cup {files[k].ShortcutDetails[1].TargetId :
              k \in {j \in DOMAIN files :
                        /\ isShortcut(files[j])
                        /\ files[j].ShortcutDetails[1].TargetMimeType = driveFolderType}}

\* the directory IDs held in the queue, in the overflow buffer and in the
\* batches of the runners
HeldIDs ==
    {inq[k].id : k \in DOMAIN inq}
    \cup {overflow[k].id : k \in DOMAIN overflow}
    \cup UNION {{run[w].dirs[k] : k \in DOMAIN run[w].dirs} : w \in Runners}

\* C37: every directory ID held by a job in the queue, in the overflow
\* buffer or in a batch is the actual ID of a directory, without the
\* separator, for the root job, the jobs of discovered folders (folders
\* reached through a shortcut included) and the re-enqueued jobs.
C37_JobsCarryActualIDs ==
    \A id \in HeldIDs : ~isShortcutID(id) /\ actualID(id) = id /\ id \in FolderIDs

\* a job drawn into a batch for the folder behind the shortcut, under the
\* shortcut's path, and sent again after an empty answer
C37_Witness ==
    \E w \in Runners :
        /\ run[w].pc = "requeue"
        /\ run[w].i = 1
        /\ \E k \in DOMAIN files :
              /\ isShortcut(files[k])
              /\ run[w].dirs[1] = files[k].ShortcutDetails[1].TargetId
              /\ run[w].paths[1] = <<files[k].Name>>
              /\ listREntry(run[w].dirs[1], run[w].paths[1]) \in
                    {inq[j] : j \in DOMAIN inq} \cup {overflow[j] : j \in DOMAIN overflow}

\* the items of the remote for which itemToDirEntry returns (nil, nil)
Unrepresentable ==
    {k \in DOMAIN files :
        LET c == itemToDirEntryFetching(defaultOpt, <<files[k].Name>>, files[k],
                                        [file |-> nil, err |-> fetchFailed])
        IN  c.entry = nilEntry /\ c.err = NoErr}

\* Fs.List never appends the nil entry of such an item to its result
ListDropsNil ==
    nilEntry \notin ListSequentially(files, actualID(rootID), <<>>, Len(files))

\* C38: an item for which the conversion returns no entry and no error is
\* never handed to the callback of the listing, by ListR just as by List:
\* the nil entry is not among the entries that cb has passed on, and not
\* among those of List.
C38_NilEntryNeverHandedOn ==
    Unrepresentable # {} => (ListDropsNil /\ ~BagIn(nilEntry, listed))

\* what happens instead: ListR has ended without error, and cb was called
\* with the nil entry of the item, counted it and passed it to list.Add
NilEntryHandedOn ==
    /\ Terminated
    /\ firstErr = NoErr
    /\ Unrepresentable # {}
    /\ ListDropsNil
    /\ BagIn(nilEntry, listed)

\* the (directory ID, path) pairs of a batch, index by index
Pairs(s) == [k \in 1..Len(s.dirs) |-> <<s.dirs[k], s.paths[k]>>]

\* C39: sorting a batch yields directory IDs in non-decreasing order and a
\* permutation of the (directory ID, path) pairs of the batch, so that a
\* binary search for a parent ID that is in the batch finds an index whose
\* path was drawn with that ID.
C39_SortKeepsPairs ==
    probe.pc \in {"sorted", "emitted"} =>
        LET s == probe.sorted
        IN  /\ Len(s.dirs) = Len(probe.batch.dirs)
            /\ Len(s.paths) = Len(s.dirs)
            /\ \A k \in 1..(Len(s.dirs) - 1) : ~StrLess(s.dirs[k + 1], s.dirs[k])
            /\ SeqToBag(Pairs(s)) = SeqToBag(Pairs(probe.batch))
            /\ \A id \in Range(probe.batch.dirs) :
                  LET i == SearchStrings(s.dirs, id)
                  IN  /\ i < Len(s.dirs)
                      /\ s.dirs[i + 1] = id
                      /\ <<id, s.paths[i + 1]>> \in Range(Pairs(probe.batch))

C39_Witness ==
    /\ probe.pc = "sorted"
    /\ probe.batch.dirs = <<<<3>>, <<1>>, <<2>>>>
    /\ probe.sorted.dirs = <<<<1>>, <<2>>, <<3>>>>
    /\ probe.sorted.paths = <<<<2>>, <<3>>, <<1>>>>
    /\ SearchStrings(probe.sorted.dirs, <<3>>) = 2

====
